---- MODULE Spec2Model ----
(***************************************************************************)
(* Model of the mm-go market-making engine: the paper trading engine, the  *)
(* incremental indicators, the quoting strategy and the backtest driver.   *)
(*                                                                         *)
(* float64 values are modelled as fixed-point integers with FP units per   *)
(* 1.0, plus the infinities and one distinguished value NaN that every     *)
(* arithmetic operation propagates and every ordered comparison rejects,   *)
(* as IEEE-754 does.  Signed zeros are not distinguished.                  *)
(***************************************************************************)
EXTENDS Integers, Sequences, FiniteSets, TLC

\* ------------------------------------------------------------------ floats
FP == 1000

NaN == -999999999

\* +Inf; -Inf is its negation.  Every finite value of the model lies between.
Inf == 900000000

IsNaN(x) == x = NaN

IsInf(x) == x = Inf \/ x = -Inf

AbsI(v) == IF v < 0 THEN -v ELSE v

Sign(v) == IF v > 0 THEN 1 ELSE IF v < 0 THEN -1 ELSE 0

\* integer quotient rounded to nearest, ties away from zero
RoundDiv(a, b) ==
    LET q == (2 * AbsI(a) + AbsI(b)) \div (2 * AbsI(b))
    IN IF (a < 0) = (b < 0) THEN q ELSE -q

FromInt(n) == n * FP

FNeg(a) == IF IsNaN(a) THEN NaN ELSE -a

\* Inf + (-Inf) is NaN
FAdd(a, b) ==
    IF IsNaN(a) \/ IsNaN(b) THEN NaN
    ELSE IF IsInf(a) THEN (IF b = -a THEN NaN ELSE a)
    ELSE IF IsInf(b) THEN b
    ELSE a + b

FSub(a, b) == FAdd(a, FNeg(b))

\* 0 * Inf is NaN
FMul(a, b) ==
    IF IsNaN(a) \/ IsNaN(b) THEN NaN
    ELSE IF IsInf(a) \/ IsInf(b)
    THEN (IF a = 0 \/ b = 0 THEN NaN ELSE Sign(a) * Sign(b) * Inf)
    ELSE RoundDiv(a * b, FP)

\* Inf / Inf and 0 / 0 are NaN; x / 0 is an infinity; x / Inf is 0
FDiv(a, b) ==
    IF IsNaN(a) \/ IsNaN(b) THEN NaN
    ELSE IF IsInf(a) THEN (IF IsInf(b) THEN NaN ELSE IF b < 0 THEN -a ELSE a)
    ELSE IF IsInf(b) THEN 0
    ELSE IF b = 0 THEN (IF a = 0 THEN NaN ELSE Sign(a) * Inf)
    ELSE RoundDiv(a * FP, b)

FLt(a, b) == ~IsNaN(a) /\ ~IsNaN(b) /\ a < b

FLe(a, b) == ~IsNaN(a) /\ ~IsNaN(b) /\ a <= b

FGt(a, b) == FLt(b, a)

FGe(a, b) == FLe(b, a)

FAbs(a) == IF IsNaN(a) THEN NaN ELSE AbsI(a)

FMax(a, b) == IF IsNaN(a) \/ IsNaN(b) THEN NaN ELSE IF a > b THEN a ELSE b

FMin(a, b) == IF IsNaN(a) \/ IsNaN(b) THEN NaN ELSE IF a < b THEN a ELSE b

clampFloat(v, lo, hi) == IF FLt(v, lo) THEN lo ELSE IF FGt(v, hi) THEN hi ELSE v

\* --------------------------------------------------------------------- int
\* Go's int is a two's-complement integer whose arithmetic wraps around; the
\* model keeps the wrap-around at a width of IntBits bits.
IntBits == 8

IntMin == -(2 ^ (IntBits - 1))

IntMax == 2 ^ (IntBits - 1) - 1

WrapInt(v) == ((v - IntMin) % (2 ^ IntBits)) + IntMin

absInt(v) == IF v < 0 THEN WrapInt(-v) ELSE v


\* ------------------------------------------------------------------ bounds
MaxCandles == 4

MaxInventoryLimit == 2

MaxLotSize == 2

MaxInventory == 4

\* ------------------------------------------------------------- data types
\* Candle{Time, Open, High, Low, Close, Volume}; Open is read nowhere.
Lows == {8000, 9400, 10000}

Highs == {10000, 10600, 12000}

Closes == {10000, 10200, NaN}

Volumes == {1000, Inf}

\* the bars of the feed: every range around an unchanged close; a moved close
\* on the widest bar; a NaN close or an infinite volume on a falling bar
FeedShape(c) ==
    \/ c.Close = 10000 /\ c.Volume = 1000
    \/ c.High = 12000 /\ c.Low = 8000 /\ c.Close = 10200 /\ c.Volume = 1000
    \/ c.High = 10000 /\ c.Low = 8000 /\ c.Close = NaN /\ c.Volume = 1000
    \/ c.High = 10000 /\ c.Low = 8000 /\ c.Close = 10000 /\ c.Volume = Inf

CandleAt(t) ==
    { c \in [Time : {t}, Open : {10000}, High : Highs, Low : Lows,
             Close : Closes, Volume : Volumes] : FeedShape(c) }

ZeroQuote ==
    [Time |-> 0, BidPrice |-> 0, BidSize |-> 0, BidActive |-> FALSE,
     AskPrice |-> 0, AskSize |-> 0, AskActive |-> FALSE, Valid |-> FALSE]

ZeroCandle ==
    [Time |-> 0, Open |-> 0, High |-> 0, Low |-> 0, Close |-> 0, Volume |-> 0]

\* ------------------------------------------------------------ PaperEngine
NewPaperEngine ==
    [inventory |-> 0, cash |-> 0, pendingOrders |-> <<>>, pnlHistory |-> <<>>,
     trades |-> <<>>, results |-> <<>>, lastClose |-> 0]

Inventory(pe) == pe.inventory

\* mutant: an order fills only when the bar trades strictly through its price
ApplyOrder_StrictCross(st, order, c) ==
    LET trade == [Side |-> order.Side, Time |-> c.Time,
                  Price |-> order.Price, Size |-> order.Size]
        amount == FMul(order.Price, FromInt(order.Size))
    IN IF order.Side = "buy" /\ FLt(c.Low, order.Price)
       THEN [pe |-> [st.pe EXCEPT !.inventory = WrapInt(@ + order.Size),
                                  !.cash = FSub(@, amount),
                                  !.trades = Append(@, trade)],
             fills |-> Append(st.fills, trade)]
       ELSE IF order.Side = "sell" /\ FGt(c.High, order.Price)
       THEN [pe |-> [st.pe EXCEPT !.inventory = WrapInt(@ - order.Size),
                                  !.cash = FAdd(@, amount),
                                  !.trades = Append(@, trade)],
             fills |-> Append(st.fills, trade)]
       ELSE st

\* mutant: a buy is paid at the candle's low instead of the order's price
ApplyOrder_PaysCandleLow(st, order, c) ==
    LET trade == [Side |-> order.Side, Time |-> c.Time,
                  Price |-> order.Price, Size |-> order.Size]
        amount == FMul(order.Price, FromInt(order.Size))
    IN IF order.Side = "buy" /\ FLe(c.Low, order.Price)
       THEN [pe |-> [st.pe EXCEPT !.inventory = WrapInt(@ + order.Size),
                                  !.cash = FSub(@, FMul(c.Low, FromInt(order.Size))),
                                  !.trades = Append(@, trade)],
             fills |-> Append(st.fills, trade)]
       ELSE IF order.Side = "sell" /\ FGe(c.High, order.Price)
       THEN [pe |-> [st.pe EXCEPT !.inventory = WrapInt(@ - order.Size),
                                  !.cash = FAdd(@, amount),
                                  !.trades = Append(@, trade)],
             fills |-> Append(st.fills, trade)]
       ELSE st

\* mutant: a new trade is put at the head of the trade log
ApplyOrder_LogsAtHead(st, order, c) ==
    LET trade == [Side |-> order.Side, Time |-> c.Time,
                  Price |-> order.Price, Size |-> order.Size]
        amount == FMul(order.Price, FromInt(order.Size))
    IN IF order.Side = "buy" /\ FLe(c.Low, order.Price)
       THEN [pe |-> [st.pe EXCEPT !.inventory = WrapInt(@ + order.Size),
                                  !.cash = FSub(@, amount),
                                  !.trades = <<trade>> \o @],
             fills |-> Append(st.fills, trade)]
       ELSE IF order.Side = "sell" /\ FGe(c.High, order.Price)
       THEN [pe |-> [st.pe EXCEPT !.inventory = WrapInt(@ - order.Size),
                                  !.cash = FAdd(@, amount),
                                  !.trades = <<trade>> \o @],
             fills |-> Append(st.fills, trade)]
       ELSE st

\* one iteration of the range loop of ApplyFills: st = [pe, fills]
ApplyOrder(st, order, c) ==
    LET trade == [Side |-> order.Side, Time |-> c.Time,
                  Price |-> order.Price, Size |-> order.Size]
        amount == FMul(order.Price, FromInt(order.Size))
    IN IF order.Side = "buy" /\ FLe(c.Low, order.Price)
       THEN [pe |-> [st.pe EXCEPT !.inventory = WrapInt(@ + order.Size),
                                  !.cash = FSub(@, amount),
                                  !.trades = Append(@, trade)],
             fills |-> Append(st.fills, trade)]
       ELSE IF order.Side = "sell" /\ FGe(c.High, order.Price)
       THEN [pe |-> [st.pe EXCEPT !.inventory = WrapInt(@ - order.Size),
                                  !.cash = FAdd(@, amount),
                                  !.trades = Append(@, trade)],
             fills |-> Append(st.fills, trade)]
       ELSE st

RECURSIVE ApplyOrders(_, _, _)
ApplyOrders(st, orders, c) ==
    IF orders = <<>> THEN st
    ELSE ApplyOrders(ApplyOrder(st, Head(orders), c), Tail(orders), c)

\* mutant: the resting orders are not cleared after matching
ApplyFills_NoClear(pe, c) ==
    IF Len(pe.pendingOrders) = 0
    THEN [pe |-> pe, fills |-> <<>>]
    ELSE LET st == ApplyOrders([pe |-> pe, fills |-> <<>>], pe.pendingOrders, c)
         IN [pe |-> st.pe, fills |-> st.fills]

\* mutant: only the filled orders are removed, the others stay resting
ApplyFills_KeepUnfilled(pe, c) ==
    IF Len(pe.pendingOrders) = 0
    THEN [pe |-> pe, fills |-> <<>>]
    ELSE LET st == ApplyOrders([pe |-> pe, fills |-> <<>>], pe.pendingOrders, c)
             unfilled(o) == ApplyOrder([pe |-> pe, fills |-> <<>>], o, c).fills = <<>>
         IN [pe |-> [st.pe EXCEPT !.pendingOrders = SelectSeq(pe.pendingOrders, unfilled)],
             fills |-> st.fills]

\* mutant: the resting orders are cleared only when one of them filled
ApplyFills_ClearOnlyOnFill(pe, c) ==
    IF Len(pe.pendingOrders) = 0
    THEN [pe |-> pe, fills |-> <<>>]
    ELSE LET st == ApplyOrders([pe |-> pe, fills |-> <<>>], pe.pendingOrders, c)
         IN [pe |-> [st.pe EXCEPT !.pendingOrders =
                                      IF st.fills = <<>> THEN pe.pendingOrders ELSE <<>>],
             fills |-> st.fills]

\* returns [pe |-> engine after the call, fills |-> returned slice]
ApplyFills(pe, c) ==
    IF Len(pe.pendingOrders) = 0
    THEN [pe |-> pe, fills |-> <<>>]
    ELSE LET st == ApplyOrders([pe |-> pe, fills |-> <<>>], pe.pendingOrders, c)
         IN [pe |-> [st.pe EXCEPT !.pendingOrders = <<>>], fills |-> st.fills]

\* mutant: any fill is recorded on the buy side of the row
FillRow_AllAsBuys(row, fills) ==
    IF fills = <<>> THEN row
    ELSE [row EXCEPT !.BuyFillPrice = fills[Len(fills)].Price, !.HasBuyFill = TRUE]

RECURSIVE FillRow(_, _)
FillRow(row, fills) ==
    IF fills = <<>> THEN row
    ELSE LET fill == Head(fills)
         IN FillRow(IF fill.Side = "buy"
                    THEN [row EXCEPT !.BuyFillPrice = fill.Price, !.HasBuyFill = TRUE]
                    ELSE IF fill.Side = "sell"
                    THEN [row EXCEPT !.SellFillPrice = fill.Price, !.HasSellFill = TRUE]
                    ELSE row,
                    Tail(fills))

\* mutant: the sell order is priced at the bid
NewOrders_SellAtBid(quote) ==
    (IF quote.BidActive /\ quote.BidSize > 0 /\ ~IsNaN(quote.BidPrice)
     THEN << [Side |-> "buy", Price |-> quote.BidPrice,
              Size |-> quote.BidSize, PlacedAt |-> quote.Time] >>
     ELSE <<>>)
    \o
    (IF quote.AskActive /\ quote.AskSize > 0 /\ ~IsNaN(quote.AskPrice)
     THEN << [Side |-> "sell", Price |-> quote.BidPrice,
              Size |-> quote.AskSize, PlacedAt |-> quote.Time] >>
     ELSE <<>>)

\* mutant: an active side is installed whatever its size
NewOrders_IgnoresSize(quote) ==
    (IF quote.BidActive /\ ~IsNaN(quote.BidPrice)
     THEN << [Side |-> "buy", Price |-> quote.BidPrice,
              Size |-> quote.BidSize, PlacedAt |-> quote.Time] >>
     ELSE <<>>)
    \o
    (IF quote.AskActive /\ ~IsNaN(quote.AskPrice)
     THEN << [Side |-> "sell", Price |-> quote.AskPrice,
              Size |-> quote.AskSize, PlacedAt |-> quote.Time] >>
     ELSE <<>>)

NewOrders(quote) ==
    (IF quote.BidActive /\ quote.BidSize > 0 /\ ~IsNaN(quote.BidPrice)
     THEN << [Side |-> "buy", Price |-> quote.BidPrice,
              Size |-> quote.BidSize, PlacedAt |-> quote.Time] >>
     ELSE <<>>)
    \o
    (IF quote.AskActive /\ quote.AskSize > 0 /\ ~IsNaN(quote.AskPrice)
     THEN << [Side |-> "sell", Price |-> quote.AskPrice,
              Size |-> quote.AskSize, PlacedAt |-> quote.Time] >>
     ELSE <<>>)

\* mutant: the mark-to-market value of the position is booked into cash
FinalizeCandle_MarksCash(pe, c, quote, fills) ==
    LET currentPnL == FAdd(pe.cash, FMul(FromInt(pe.inventory), c.Close))
        signal == IF pe.inventory > 0 THEN FromInt(1)
                  ELSE IF pe.inventory < 0 THEN FromInt(-1) ELSE 0
        row0 == [Time |-> c.Time, Close |-> c.Close, Bid |-> NaN, Ask |-> NaN,
                 Inventory |-> pe.inventory, Signal |-> signal, Cash |-> pe.cash,
                 CumulativePnL |-> currentPnL,
                 BuyFillPrice |-> 0, HasBuyFill |-> FALSE,
                 SellFillPrice |-> 0, HasSellFill |-> FALSE]
        row1 == FillRow(row0, fills)
        row2 == IF quote.Valid /\ quote.BidActive
                THEN [row1 EXCEPT !.Bid = quote.BidPrice] ELSE row1
        row == IF quote.Valid /\ quote.AskActive
               THEN [row2 EXCEPT !.Ask = quote.AskPrice] ELSE row2
    IN [pe |-> [pe EXCEPT !.pnlHistory = Append(@, currentPnL),
                          !.pendingOrders = IF quote.Valid THEN NewOrders(quote) ELSE <<>>,
                          !.results = Append(@, row),
                          !.cash = currentPnL,
                          !.lastClose = c.Close],
        row |-> row]

\* returns [pe |-> engine after the call, row |-> returned ResultRow]
FinalizeCandle(pe, c, quote, fills) ==
    LET currentPnL == FAdd(pe.cash, FMul(FromInt(pe.inventory), c.Close))
        signal == IF pe.inventory > 0 THEN FromInt(1)
                  ELSE IF pe.inventory < 0 THEN FromInt(-1) ELSE 0
        row0 == [Time |-> c.Time, Close |-> c.Close, Bid |-> NaN, Ask |-> NaN,
                 Inventory |-> pe.inventory, Signal |-> signal, Cash |-> pe.cash,
                 CumulativePnL |-> currentPnL,
                 BuyFillPrice |-> 0, HasBuyFill |-> FALSE,
                 SellFillPrice |-> 0, HasSellFill |-> FALSE]
        row1 == FillRow(row0, fills)
        row2 == IF quote.Valid /\ quote.BidActive
                THEN [row1 EXCEPT !.Bid = quote.BidPrice] ELSE row1
        row == IF quote.Valid /\ quote.AskActive
               THEN [row2 EXCEPT !.Ask = quote.AskPrice] ELSE row2
    IN [pe |-> [pe EXCEPT !.pnlHistory = Append(@, currentPnL),
                          !.pendingOrders = IF quote.Valid THEN NewOrders(quote) ELSE <<>>,
                          !.results = Append(@, row),
                          !.lastClose = c.Close],
        row |-> row]

FinalPnL(pe) == FAdd(pe.cash, FMul(FromInt(pe.inventory), pe.lastClose))

PnLHistory(pe) == pe.pnlHistory

Trades(pe) == pe.trades

Results(pe) == pe.results

\* ------------------------------------------------------------ MeIndicator
\* Definitions are staged through parameters (a value computed once is handed
\* to the next stage) so that every intermediate value is written once.
NewMeIndicator(period) ==
    [period |-> period, closeHistory |-> <<>>, trWindow |-> <<>>, volWindow |-> <<>>,
     trSum |-> 0, volSum |-> 0, Efficiency |-> 0, IsBearish |-> FALSE]

\* mutant: the value that leaves the window stays in the running sum
PushWindow_KeepsDroppedInSum(window, sum, v, cap) ==
    IF Len(window) + 1 > cap
    THEN [window |-> Tail(Append(window, v)), sum |-> FAdd(sum, v)]
    ELSE [window |-> Append(window, v), sum |-> FAdd(sum, v)]

\* append v to a window with its running sum; drop the oldest past `cap`
PushWindow(window, sum, v, cap) ==
    IF Len(window) + 1 > cap
    THEN [window |-> Tail(Append(window, v)),
          sum |-> FSub(FAdd(sum, v), Head(Append(window, v)))]
    ELSE [window |-> Append(window, v), sum |-> FAdd(sum, v)]

LastN(seq, k) == IF Len(seq) > k THEN SubSeq(seq, Len(seq) - k + 1, Len(seq)) ELSE seq

TrueRangeFrom(c, prevClose) ==
    FMax(FMax(FSub(c.High, c.Low), FAbs(FSub(c.High, prevClose))),
         FAbs(FSub(c.Low, prevClose)))

TrueRange(indi, c) ==
    IF Len(indi.closeHistory) > 0
    THEN TrueRangeFrom(c, indi.closeHistory[Len(indi.closeHistory)])
    ELSE FSub(c.High, c.Low)

\* the three window updates of Process
MeWindows(indi, c) ==
    [indi EXCEPT
        !.trWindow = PushWindow(indi.trWindow, indi.trSum, TrueRange(indi, c), indi.period).window,
        !.trSum = PushWindow(indi.trWindow, indi.trSum, TrueRange(indi, c), indi.period).sum,
        !.volWindow = PushWindow(indi.volWindow, indi.volSum, c.Volume, indi.period).window,
        !.volSum = PushWindow(indi.volWindow, indi.volSum, c.Volume, indi.period).sum,
        !.closeHistory = LastN(Append(indi.closeHistory, c.Close), indi.period + 1)]

RawEfficiency(priceChange, totalMovement) ==
    IF FGt(totalMovement, 0) THEN FDiv(FAbs(priceChange), totalMovement) ELSE 0

VolumeRatio(volume, volumeSMA) ==
    IF FGt(volumeSMA, 0) THEN FDiv(volume, volumeSMA) ELSE 0

MarketEfficiency(efficiency, volumeRatio) ==
    FAdd(FMul(efficiency, 700),
         FMul(FDiv(FMin(volumeRatio, FromInt(3)), FromInt(3)), 300))

MeNotReady(upd) ==
    [indi |-> upd, ok |-> FALSE, priceChange |-> NaN, totalMovement |-> NaN,
     efficiency |-> NaN]

\* the ready branch: upd holds the updated windows
MeSignal(upd, c, priceChange, efficiency) ==
    [indi |-> [upd EXCEPT
                 !.Efficiency =
                     FMin(MarketEfficiency(
                              efficiency,
                              VolumeRatio(c.Volume, FDiv(upd.volSum, FromInt(upd.period)))),
                          FromInt(1)),
                 !.IsBearish = FLt(priceChange, 0)],
     ok |-> TRUE, priceChange |-> priceChange, totalMovement |-> upd.trSum,
     efficiency |-> efficiency]

MeReady(upd, c, priceChange) ==
    MeSignal(upd, c, priceChange, RawEfficiency(priceChange, upd.trSum))

\* mutant: ready as soon as `period` closes are held
MeAfterWindows_ReadyAtPeriod(upd, c) ==
    IF Len(upd.closeHistory) < upd.period
    THEN MeNotReady(upd)
    ELSE MeReady(upd, c, FSub(c.Close, upd.closeHistory[1]))

MeAfterWindows(upd, c) ==
    IF Len(upd.closeHistory) <= upd.period
    THEN MeNotReady(upd)
    ELSE IF Len(upd.trWindow) < upd.period \/ Len(upd.volWindow) < upd.period
    THEN MeNotReady(upd)
    ELSE MeReady(upd, c, FSub(c.Close, upd.closeHistory[1]))

\* mutant: only a negative period disables the indicator
MeProcess_ZeroPeriodRuns(indi, c) ==
    IF indi.period < 0 THEN MeNotReady(indi) ELSE MeAfterWindows(MeWindows(indi, c), c)

\* returns [indi |-> indicator after the call, ok |-> returned flag] and the
\* locals priceChange, totalMovement, efficiency of a ready call
MeProcess(indi, c) ==
    IF indi.period <= 0 THEN MeNotReady(indi) ELSE MeAfterWindows(MeWindows(indi, c), c)

\* ----------------------------------------------------------- EmaIndicator
\* integer square root (floor), by bisection on [lo, hi]
RECURSIVE ISqrt(_, _, _)
ISqrt(x, lo, hi) ==
    IF lo >= hi THEN lo
    ELSE IF ((lo + hi + 1) \div 2) * ((lo + hi + 1) \div 2) <= x
    THEN ISqrt(x, (lo + hi + 1) \div 2, hi)
    ELSE ISqrt(x, lo, ((lo + hi + 1) \div 2) - 1)

\* math.Sqrt on fixed-point values: sqrt(x/FP)*FP = sqrt(x*FP)
FSqrt(x) ==
    IF IsNaN(x) \/ x < 0 THEN NaN ELSE IF x = Inf THEN Inf ELSE ISqrt(x * FP, 0, 46340)

NewEmaIndicator(span) ==
    [alpha |-> FDiv(FromInt(2), FromInt(span + 1)),
     decay |-> FSub(FromInt(1), FDiv(FromInt(2), FromInt(span + 1))),
     span |-> span,
     window |-> <<>>, ema |-> 0, SlopeNorm |-> 0, sum |-> 0, sumSquares |-> 0,
     lastMid |-> 0, hasLastMid |-> FALSE]

Denominator(mean, lastMid, stdDev) ==
    IF stdDev = 0
    THEN IF FAbs(lastMid) = 0 THEN FAbs(mean) ELSE FAbs(lastMid)
    ELSE stdDev

\* mutant: the ratio is not clamped
ClampUnlessNaN_NoClamp(q) == q

ClampUnlessNaN(q) == IF ~IsNaN(q) THEN clampFloat(q, FromInt(-1), FromInt(1)) ELSE q

NormalizeBy(slope, denom) ==
    IF denom # 0 THEN ClampUnlessNaN(FDiv(slope, denom)) ELSE 0

\* the slope normalisation shared by the EMA and the Bollinger indicator
NormSlope(mean, lastMid, stdDev) ==
    NormalizeBy(FSub(mean, lastMid), Denominator(mean, lastMid, stdDev))

Variance(meanSquares, mean) ==
    IF FLt(FSub(meanSquares, FMul(mean, mean)), 0)
    THEN 0 ELSE FSub(meanSquares, FMul(mean, mean))

StdDevOf(sumSquares, cnt, mean) == FSqrt(Variance(FDiv(sumSquares, cnt), mean))

\* the tail of Process once the window is full: w holds window, sum, sumSquares
EmaStats(indi, w, mean) ==
    [indi |-> [w EXCEPT !.lastMid = mean, !.hasLastMid = TRUE],
     ok |-> TRUE,
     normSlope |-> IF indi.hasLastMid
                   THEN NormSlope(mean, indi.lastMid,
                                  StdDevOf(w.sumSquares, FromInt(Len(w.window)), mean))
                   ELSE NaN]

EmaFull(indi, w) == EmaStats(indi, w, FDiv(w.sum, FromInt(Len(w.window))))

\* mutant: the dropped value stays in the sum of squares
EmaTrim_KeepsSquares(w) ==
    IF Len(w.window) > w.span
    THEN [w EXCEPT !.window = Tail(w.window),
                   !.sum = FSub(w.sum, Head(w.window))]
    ELSE w

\* drop the oldest value when the window exceeds the span
EmaTrim(w) ==
    IF Len(w.window) > w.span
    THEN [w EXCEPT !.window = Tail(w.window),
                   !.sum = FSub(w.sum, Head(w.window)),
                   !.sumSquares = FSub(w.sumSquares, FMul(Head(w.window), Head(w.window)))]
    ELSE w

\* mutant: not ready while the window holds no more than `span` values
EmaAfterPush_ReadyPastSpan(indi, w) ==
    IF Len(w.window) <= w.span
    THEN [indi |-> w, ok |-> FALSE, normSlope |-> NaN]
    ELSE EmaFull(indi, EmaTrim(w))

\* w is the indicator with the new ema appended
EmaAfterPush(indi, w) ==
    IF Len(w.window) < w.span
    THEN [indi |-> w, ok |-> FALSE, normSlope |-> NaN]
    ELSE EmaFull(indi, EmaTrim(w))

EmaPush(indi, ema) ==
    EmaAfterPush(indi, [indi EXCEPT !.ema = ema,
                                    !.window = Append(indi.window, ema),
                                    !.sum = FAdd(indi.sum, ema),
                                    !.sumSquares = FAdd(indi.sumSquares, FMul(ema, ema))])

\* returns [indi |-> indicator after the call, ok |-> returned flag,
\*          normSlope |-> the local normSlope at return (NaN when not computed)]
EmaProcess(indi, c) ==
    EmaPush(indi, FAdd(FMul(c.Close, indi.alpha), FMul(indi.ema, indi.decay)))

\* ---------------------------------------------------------------- MmStrat
\* s = [meIndi, emaIndi, BaseSpread, InventoryLimit, LotSize, InventorySkewK,
\*      TrendSkewK, TrendBias]
NewMmStrat(params) ==
    [meIndi |-> NewMeIndicator(params.MeSpan),
     emaIndi |-> NewEmaIndicator(params.EmaSpan),
     BaseSpread |-> params.BaseSpread,
     InventoryLimit |-> params.InventoryLimit,
     LotSize |-> params.LotSize,
     InventorySkewK |-> params.InventorySkewK,
     TrendSkewK |-> params.TrendSkewK,
     TrendBias |-> params.TrendBias]

\* mutant: the bid is tested on the inventory held, not on the inventory a
\* fill would leave
BidGate_TestsInventoryHeld(s, inventory) ==
    s.InventoryLimit = 0 \/ absInt(inventory) <= s.InventoryLimit

BidGate(s, inventory) ==
    s.InventoryLimit = 0 \/ absInt(WrapInt(inventory + s.LotSize)) <= s.InventoryLimit

\* mutant: the ask is tested against the limit even when the limit is 0
AskGate_TestsZeroLimit(s, inventory) ==
    absInt(WrapInt(inventory - s.LotSize)) <= s.InventoryLimit

AskGate(s, inventory) ==
    s.InventoryLimit = 0 \/ absInt(WrapInt(inventory - s.LotSize)) <= s.InventoryLimit

Spread(s, closePrice, efficiency) ==
    FMul(FMul(s.BaseSpread, closePrice), FAdd(FromInt(1), FMul(efficiency, FromInt(2))))

\* mutant: the whole spread is put on each side
HalfSpread_WholeSpread(s, closePrice, efficiency) == Spread(s, closePrice, efficiency)

HalfSpread(s, closePrice, efficiency) == FDiv(Spread(s, closePrice, efficiency), FromInt(2))

\* mutant: the inventory fraction is not clamped
InvShift_Unclamped(s, inventory, halfSpread) ==
    IF s.InventoryLimit > 0 /\ s.InventorySkewK # 0
    THEN FMul(FMul(s.InventorySkewK,
                   FDiv(FromInt(inventory), FromInt(s.InventoryLimit))),
              halfSpread)
    ELSE 0

InvShift(s, inventory, halfSpread) ==
    IF s.InventoryLimit > 0 /\ s.InventorySkewK # 0
    THEN FMul(FMul(s.InventorySkewK,
                   clampFloat(FDiv(FromInt(inventory), FromInt(s.InventoryLimit)),
                              FromInt(-1), FromInt(1))),
              halfSpread)
    ELSE 0

TrendSignal(s) ==
    clampFloat(FSub(FAdd(s.emaIndi.SlopeNorm,
                         FMul(500, IF s.meIndi.IsBearish
                                   THEN FSub(0, s.meIndi.Efficiency)
                                   ELSE s.meIndi.Efficiency)),
                    s.TrendBias),
               FromInt(-1), FromInt(1))

TrendShift(s, halfSpread) ==
    IF s.TrendSkewK # 0 THEN FMul(FMul(s.TrendSkewK, TrendSignal(s)), halfSpread) ELSE 0

\* mutant: a withheld side keeps the computed price
GatedQuote_KeepsPrice(s, c, inventory, bid, ask) ==
    [Time |-> c.Time,
     BidPrice |-> bid,
     BidSize |-> s.LotSize,
     BidActive |-> BidGate(s, inventory),
     AskPrice |-> ask,
     AskSize |-> s.LotSize,
     AskActive |-> AskGate(s, inventory),
     Valid |-> TRUE]

\* per-side activation: an inactive side keeps Active = FALSE and gets price NaN
GatedQuote(s, c, inventory, bid, ask) ==
    [Time |-> c.Time,
     BidPrice |-> IF BidGate(s, inventory) THEN bid ELSE NaN,
     BidSize |-> s.LotSize,
     BidActive |-> BidGate(s, inventory),
     AskPrice |-> IF AskGate(s, inventory) THEN ask ELSE NaN,
     AskSize |-> s.LotSize,
     AskActive |-> AskGate(s, inventory),
     Valid |-> TRUE]

\* mutant: the ask is shifted twice as far as the bid
ShiftedQuote_AskShiftedTwice(s, c, inventory, halfSpread, shift) ==
    GatedQuote(s, c, inventory,
               FSub(FSub(c.Close, halfSpread), shift),
               FSub(FSub(FAdd(c.Close, halfSpread), shift), shift))

ShiftedQuote(s, c, inventory, halfSpread, shift) ==
    GatedQuote(s, c, inventory,
               FSub(FSub(c.Close, halfSpread), shift),
               FSub(FAdd(c.Close, halfSpread), shift))

\* mutant: the trend skew moves the bid alone
SkewedQuote_TrendOnBidOnly(s, c, inventory, halfSpread) ==
    GatedQuote(s, c, inventory,
               FSub(FSub(c.Close, halfSpread),
                    FAdd(InvShift(s, inventory, halfSpread), TrendShift(s, halfSpread))),
               FSub(FAdd(c.Close, halfSpread), InvShift(s, inventory, halfSpread)))

SkewedQuote(s, c, inventory, halfSpread) ==
    ShiftedQuote(s, c, inventory, halfSpread,
                 FAdd(InvShift(s, inventory, halfSpread), TrendShift(s, halfSpread)))

\* the quote built once both indicators are ready (s already holds the
\* indicators as updated by this call)
BuildQuote(s, c, inventory) ==
    SkewedQuote(s, c, inventory, HalfSpread(s, c.Close, s.meIndi.Efficiency))

\* mutant: the NaN test on the efficiency is dropped
StratDecide_IgnoresNaNEfficiency(s, c, inventory, emaOk, meOk) ==
    IF ~emaOk \/ IsNaN(s.emaIndi.SlopeNorm) \/ ~meOk
    THEN [s |-> s, ok |-> FALSE, quote |-> ZeroQuote]
    ELSE [s |-> s, ok |-> TRUE, quote |-> BuildQuote(s, c, inventory)]

StratDecide(s, c, inventory, emaOk, meOk) ==
    IF ~emaOk \/ IsNaN(s.emaIndi.SlopeNorm) \/ ~meOk \/ IsNaN(s.meIndi.Efficiency)
    THEN [s |-> s, ok |-> FALSE, quote |-> ZeroQuote]
    ELSE [s |-> s, ok |-> TRUE, quote |-> BuildQuote(s, c, inventory)]

StratAfterIndicators(s, c, inventory, e, m) ==
    StratDecide([s EXCEPT !.emaIndi = e.indi, !.meIndi = m.indi], c, inventory, e.ok, m.ok)

\* returns [s |-> strategy after the call, ok |-> flag, quote |-> Quote]
MmStratProcess(s, c, inventory) ==
    StratAfterIndicators(s, c, inventory, EmaProcess(s.emaIndi, c), MeProcess(s.meIndi, c))

\* ------------------------------------------- legacy (Bollinger) pipeline
\* The first program of main.go keeps the indicators in main and hands the
\* strategy a StrategyCandle.  Its MeIndicator runs the window algorithm of
\* MeProcess and returns the values instead of storing them.
StrategyCandle(c) ==
    [Time |-> c.Time, Open |-> c.Open, High |-> c.High, Low |-> c.Low,
     Close |-> c.Close, Volume |-> c.Volume,
     Efficiency |-> NaN, NormalizedEfficiency |-> NaN, IsBullish |-> FALSE,
     HasEfficiency |-> FALSE, BandMidSlopeNorm |-> NaN, HasBollinger |-> FALSE]

LegacyMeResult(r, c) ==
    [indi |-> r.indi, ok |-> r.ok,
     sc |-> IF r.ok
            THEN [StrategyCandle(c) EXCEPT
                     !.Efficiency = r.efficiency,
                     !.NormalizedEfficiency = r.indi.Efficiency,
                     !.IsBullish = FGt(r.priceChange, 0),
                     !.HasEfficiency = TRUE]
            ELSE StrategyCandle(c)]

\* returns [indi |-> indicator after the call, ok |-> flag, sc |-> StrategyCandle]
LegacyMeProcess(indi, c) == LegacyMeResult(MeProcess(indi, c), c)

NewBollingerIndicator(period, multiplier) ==
    [period |-> period, multiplier |-> multiplier, window |-> <<>>,
     sum |-> 0, sumSquares |-> 0, lastMid |-> 0, hasLastMid |-> FALSE]

NaNBands ==
    [Mid |-> NaN, Upper |-> NaN, Lower |-> NaN, Width |-> NaN, ZScore |-> NaN,
     MidSlope |-> NaN, MidSlopeNorm |-> NaN]

ZScoreOf(closePx, mean, offset) ==
    IF FGt(offset, 0)
    THEN clampFloat(FDiv(FSub(closePx, mean), offset), FromInt(-1), FromInt(1)) ELSE 0

\* banded: mult > 0 && stdDev > 0; offset: mult * stdDev
BandsOf(bi, closePx, mean, stdDev, banded, offset) ==
    [Mid |-> mean,
     Upper |-> IF banded THEN FAdd(mean, offset) ELSE mean,
     Lower |-> IF banded THEN FSub(mean, offset) ELSE mean,
     Width |-> IF banded THEN FMul(FromInt(2), offset) ELSE 0,
     ZScore |-> IF banded THEN ZScoreOf(closePx, mean, offset) ELSE 0,
     MidSlope |-> IF bi.hasLastMid THEN FSub(mean, bi.lastMid) ELSE NaN,
     MidSlopeNorm |-> IF bi.hasLastMid THEN NormSlope(mean, bi.lastMid, stdDev) ELSE NaN]

BollingerBandsAt(bi, w, closePx, mean, stdDev) ==
    [indi |-> [w EXCEPT !.lastMid = mean, !.hasLastMid = TRUE],
     ok |-> TRUE,
     bands |-> BandsOf(bi, closePx, mean, stdDev,
                       FGt(bi.multiplier, 0) /\ FGt(stdDev, 0),
                       FMul(bi.multiplier, stdDev))]

BollingerStats(bi, w, closePx, mean) ==
    BollingerBandsAt(bi, w, closePx, mean,
                     StdDevOf(w.sumSquares, FromInt(Len(w.window)), mean))

\* w is the indicator with the close appended and the window trimmed
BollingerAfterPush(bi, w, closePx) ==
    IF Len(w.window) < w.period
    THEN [indi |-> w, ok |-> FALSE, bands |-> NaNBands]
    ELSE BollingerStats(bi, w, closePx, FDiv(w.sum, FromInt(Len(w.window))))

BollingerTrim(w) ==
    IF Len(w.window) > w.period
    THEN [w EXCEPT !.window = Tail(w.window),
                   !.sum = FSub(w.sum, Head(w.window)),
                   !.sumSquares = FSub(w.sumSquares, FMul(Head(w.window), Head(w.window)))]
    ELSE w

BollingerPush(bi, closePx) ==
    BollingerAfterPush(
        bi,
        BollingerTrim([bi EXCEPT !.window = Append(bi.window, closePx),
                                 !.sum = FAdd(bi.sum, closePx),
                                 !.sumSquares = FAdd(bi.sumSquares, FMul(closePx, closePx))]),
        closePx)

\* returns [indi |-> indicator after the call, ok |-> flag, bands |-> BollingerBands]
BollingerProcess(bi, c) ==
    IF bi.period <= 1
    THEN [indi |-> bi, ok |-> FALSE, bands |-> NaNBands]
    ELSE BollingerPush(bi, c.Close)

\* s = [BaseSpread, InventoryLimit, LotSize, InventorySkewK, TrendSkewK, TrendBias]
LegacyNewMmStrat(params) ==
    [BaseSpread |-> params.BaseSpread,
     InventoryLimit |-> params.InventoryLimit,
     LotSize |-> params.LotSize,
     InventorySkewK |-> params.InventorySkewK,
     TrendSkewK |-> params.TrendSkewK,
     TrendBias |-> params.TrendBias]

LegacyBaseTrend(c) ==
    IF ~c.IsBullish THEN FSub(0, c.NormalizedEfficiency) ELSE c.NormalizedEfficiency

LegacyTrendSignal(s, c) ==
    IF c.HasEfficiency /\ ~IsNaN(c.NormalizedEfficiency)
    THEN IF c.HasBollinger /\ ~IsNaN(c.BandMidSlopeNorm)
         THEN clampFloat(FAdd(FAdd(c.BandMidSlopeNorm, FMul(500, LegacyBaseTrend(c))),
                              s.TrendBias),
                         FromInt(-1), FromInt(1))
         ELSE LegacyBaseTrend(c)
    ELSE IF c.HasBollinger /\ ~IsNaN(c.BandMidSlopeNorm) THEN c.BandMidSlopeNorm ELSE 0

LegacyTrendShift(s, c, halfSpread) ==
    IF s.TrendSkewK # 0
    THEN FMul(FMul(s.TrendSkewK, LegacyTrendSignal(s, c)), halfSpread) ELSE 0

LegacySkewedQuote(s, c, inventory, halfSpread) ==
    ShiftedQuote(s, c, inventory, halfSpread,
                 FAdd(InvShift(s, inventory, halfSpread), LegacyTrendShift(s, c, halfSpread)))

\* returns the Quote (Valid = FALSE when the quote is withheld)
LegacyStratProcess(s, c, inventory) ==
    IF ~c.HasEfficiency \/ IsNaN(c.NormalizedEfficiency)
    THEN [Time |-> c.Time,
          BidPrice |-> NaN, BidSize |-> s.LotSize, BidActive |-> FALSE,
          AskPrice |-> NaN, AskSize |-> s.LotSize, AskActive |-> FALSE,
          Valid |-> FALSE]
    ELSE LegacySkewedQuote(s, c, inventory,
                           HalfSpread(s, c.Close, c.NormalizedEfficiency))

\* --------------------------------------------------------- backtest driver
\* Params as loaded from the parameter file; the model draws them in Init.
ParamSets ==
    { [MeSpan |-> 1, EmaSpan |-> 1, BaseSpread |-> 100, InventoryLimit |-> l,
       LotSize |-> 1, InventorySkewK |-> 500, TrendSkewK |-> 0, TrendBias |-> 0] :
        l \in 0..MaxInventoryLimit }

LegacyParamSets ==
    { [Period |-> 1, BandPeriod |-> 2, BandMultiplier |-> 2000, BaseSpread |-> 100,
       InventoryLimit |-> l, LotSize |-> 1, InventorySkewK |-> 500,
       TrendSkewK |-> 500, TrendBias |-> 0] :
        l \in 0..MaxInventoryLimit }

VARIABLES
    driver,    \* which program runs: "ema" (the current main), "bollinger" (the first
               \* main), "live" (main's live mode), or a run of one part alone:
               \* "process", "indicators", "quote", "engine", "period",
               \* "place" (one placeOrder call), "fetch" (FetchKlines)
    pe,        \* the PaperEngine
    strategy,  \* the MmStrat (with its two indicators in the current program)
    meIndicator,   \* main's meIndicator (bollinger program)
    bollIndicator, \* main's bollIndicator (bollinger program)
    pc,        \* position in main's backtest loop
    n,         \* number of candles taken from the feed
    candle,    \* loop variable `candle` (the StrategyCandle sc once built)
    fills,     \* loop variable `fills`
    ok,        \* loop variable `ok`
    quote,     \* loop variable `quote`
    finalPnL,  \* main's finalPnL, set once the loop has ended
    invArg,    \* history: the inventory argument of the latest strategy.Process call
    lastValidQuote, \* history: the latest quote returned with Valid = TRUE
    emaIndicator,  \* an EmaIndicator fed on its own (indicator runs)
    feed,      \* history: the candles fed to the indicators so far (indicator runs)
    ret,       \* what the latest Process calls of the indicators returned
    trader     \* the live execution port and the exchange behind it (live runs)

vars == <<driver, pe, strategy, meIndicator, bollIndicator, pc, n, candle,
          fills, ok, quote, finalPnL, invArg, lastValidQuote, emaIndicator, feed, ret,
          trader>>

\* the variables of the indicator runs
indicatorRun == <<emaIndicator, feed, ret>>

NoIndicator == [period |-> 0]

\* no live port: the backtest and the unit runs never construct one
NoTrader == [connected |-> FALSE]

InitNoTrader == trader = NoTrader

\* nothing returned yet
NoReturn == [called |-> FALSE]

\* the backtest and MmStrat.Process runs feed no indicator on its own
InitNoIndicatorRun ==
    /\ emaIndicator = NoIndicator
    /\ feed = <<>>
    /\ ret = NoReturn

InitLoop ==
    /\ pe = NewPaperEngine
    /\ pc = "head"
    /\ n = 0
    /\ candle = ZeroCandle
    /\ fills = <<>>
    /\ ok = FALSE
    /\ quote = ZeroQuote
    /\ finalPnL = 0
    /\ invArg = 0
    /\ lastValidQuote = ZeroQuote

InitEma ==
    /\ driver = "ema"
    /\ \E params \in ParamSets : strategy = NewMmStrat(params)
    /\ meIndicator = NoIndicator
    /\ bollIndicator = NoIndicator
    /\ InitLoop
    /\ InitNoTrader
    /\ InitNoIndicatorRun

InitBollinger ==
    /\ driver = "bollinger"
    /\ \E params \in LegacyParamSets :
         /\ strategy = LegacyNewMmStrat(params)
         /\ meIndicator = NewMeIndicator(params.Period)
         /\ bollIndicator =
              NewBollingerIndicator(
                  IF params.BandPeriod <= 0 THEN params.Period ELSE params.BandPeriod,
                  IF params.BandMultiplier <= 0 THEN FromInt(2) ELSE params.BandMultiplier)
    /\ InitLoop
    /\ InitNoTrader
    /\ InitNoIndicatorRun

Init == InitEma \/ InitBollinger

\* for _, candle := range candles { fills := paper.ApplyFills(candle)
LoopApplyFills ==
    /\ driver = "ema"
    /\ pc = "head"
    /\ n < MaxCandles
    /\ \E c \in CandleAt(n + 1) :
         \E r \in {ApplyFills(pe, c)} :
            /\ candle' = c
            /\ pe' = r.pe
            /\ fills' = r.fills
    /\ n' = n + 1
    /\ pc' = "process"
    /\ UNCHANGED indicatorRun
    /\ UNCHANGED trader
    /\ UNCHANGED <<driver, strategy, meIndicator, bollIndicator, ok, quote, finalPnL,
                   invArg, lastValidQuote>>

\* ok, quote := strategy.Process(candle, paper.Inventory()); if !ok { continue }
LoopProcess ==
    /\ driver = "ema"
    /\ pc = "process"
    /\ \E r \in {MmStratProcess(strategy, candle, Inventory(pe))} :
          /\ strategy' = r.s
          /\ ok' = r.ok
          /\ quote' = r.quote
          /\ lastValidQuote' = IF r.quote.Valid THEN r.quote ELSE lastValidQuote
          /\ pc' = IF r.ok THEN "finalize" ELSE "head"
    /\ invArg' = Inventory(pe)
    /\ UNCHANGED indicatorRun
    /\ UNCHANGED trader
    /\ UNCHANGED <<driver, pe, meIndicator, bollIndicator, n, candle, fills, finalPnL>>

\* mutant: the driver matches the new orders against the bar that quoted them
LoopFinalize_FillsSameBar ==
    /\ pc = "finalize"
    /\ pe' = ApplyFills(FinalizeCandle(pe, candle, quote, fills).pe, candle).pe
    /\ pc' = "head"
    /\ UNCHANGED indicatorRun
    /\ UNCHANGED trader
    /\ UNCHANGED <<driver, strategy, meIndicator, bollIndicator, n, candle, fills,
                   ok, quote, finalPnL, invArg, lastValidQuote>>

\* row := paper.FinalizeCandle(candle, quote, fills)
LoopFinalize ==
    /\ pc = "finalize"
    /\ pe' = FinalizeCandle(pe, candle, quote, fills).pe
    /\ pc' = "head"
    /\ UNCHANGED indicatorRun
    /\ UNCHANGED trader
    /\ UNCHANGED <<driver, strategy, meIndicator, bollIndicator, n, candle, fills,
                   ok, quote, finalPnL, invArg, lastValidQuote>>

\* bollinger program: bands, hasBands := bollIndicator.Process(candle);
\* if sc, ok := meIndicator.Process(candle); ok { if hasBands { ... } ...
LegacyIndicators ==
    /\ driver = "bollinger"
    /\ pc = "head"
    /\ n < MaxCandles
    /\ \E c \in CandleAt(n + 1) :
         \E b \in {BollingerProcess(bollIndicator, c)},
            m \in {LegacyMeProcess(meIndicator, c)} :
            /\ bollIndicator' = b.indi
            /\ meIndicator' = m.indi
            /\ ok' = m.ok
            /\ candle' = IF m.ok /\ b.ok
                         THEN [m.sc EXCEPT !.BandMidSlopeNorm = b.bands.MidSlopeNorm,
                                           !.HasBollinger = TRUE]
                         ELSE m.sc
            /\ pc' = IF m.ok THEN "apply" ELSE "head"
    /\ n' = n + 1
    /\ UNCHANGED indicatorRun
    /\ UNCHANGED trader
    /\ UNCHANGED <<driver, pe, strategy, fills, quote, finalPnL, invArg, lastValidQuote>>

\* bollinger program: fills := paper.ApplyFills(sc)
LegacyApplyFills ==
    /\ driver = "bollinger"
    /\ pc = "apply"
    /\ \E r \in {ApplyFills(pe, candle)} :
          /\ pe' = r.pe
          /\ fills' = r.fills
    /\ pc' = "process"
    /\ UNCHANGED indicatorRun
    /\ UNCHANGED trader
    /\ UNCHANGED <<driver, strategy, meIndicator, bollIndicator, n, candle, ok,
                   quote, finalPnL, invArg, lastValidQuote>>

\* bollinger program: quote := strategy.Process(sc, paper.Inventory())
LegacyProcess ==
    /\ driver = "bollinger"
    /\ pc = "process"
    /\ \E q \in {LegacyStratProcess(strategy, candle, Inventory(pe))} :
          /\ quote' = q
          /\ lastValidQuote' = IF q.Valid THEN q ELSE lastValidQuote
    /\ invArg' = Inventory(pe)
    /\ pc' = "finalize"
    /\ UNCHANGED indicatorRun
    /\ UNCHANGED trader
    /\ UNCHANGED <<driver, pe, strategy, meIndicator, bollIndicator, n, candle,
                   fills, ok, finalPnL>>

\* the range loop ends (the feed held n candles); finalPnL := paper.FinalPnL()
LoopEnd ==
    /\ pc = "head"
    /\ driver \in {"ema", "bollinger"}
    /\ finalPnL' = FinalPnL(pe)
    /\ pc' = "done"
    /\ UNCHANGED indicatorRun
    /\ UNCHANGED trader
    /\ UNCHANGED <<driver, pe, strategy, meIndicator, bollIndicator, n, candle,
                   fills, ok, quote, invArg, lastValidQuote>>

Next ==
    \/ LoopApplyFills
    \/ LoopProcess
    \/ LoopFinalize
    \/ LegacyIndicators
    \/ LegacyApplyFills
    \/ LegacyProcess
    \/ LoopEnd

Spec == Init /\ [][Next]_vars

\* ------------------------------------------- MmStrat.Process on any input
\* Process as a function of the strategy, the candle and the inventory: the
\* caller may pass any inventory (in live mode it is the exchange position).
ProcessParamSets ==
    { [MeSpan |-> 1, EmaSpan |-> 1, BaseSpread |-> 100, InventoryLimit |-> l,
       LotSize |-> z, InventorySkewK |-> 500, TrendSkewK |-> 500, TrendBias |-> 0] :
        l \in 0..MaxInventoryLimit, z \in 0..MaxLotSize }

\* the candles fed to Process here: the falling bars
ProcessCandleAt(t) == { c \in CandleAt(t) : c.Low = 8000 /\ c.High = 10000 }

\* the inventories passed in: the small ones and the ends of int's range
Inventories ==
    (-MaxInventory..MaxInventory) \cup {IntMin, IntMin + 1, IntMax - 1, IntMax}

InitProcess ==
    /\ driver = "process"
    /\ \E params \in ProcessParamSets : strategy = NewMmStrat(params)
    /\ meIndicator = NoIndicator
    /\ bollIndicator = NoIndicator
    /\ InitLoop
    /\ InitNoTrader
    /\ InitNoIndicatorRun

\* ok, quote := strategy.Process(c, inventory)
CallProcess ==
    /\ driver = "process"
    /\ n < MaxCandles
    /\ \E c \in ProcessCandleAt(n + 1), inventory \in Inventories :
         \E r \in {MmStratProcess(strategy, c, inventory)} :
            /\ candle' = c
            /\ invArg' = inventory
            /\ strategy' = r.s
            /\ ok' = r.ok
            /\ quote' = r.quote
    /\ n' = n + 1
    /\ UNCHANGED indicatorRun
    /\ UNCHANGED trader
    /\ UNCHANGED <<driver, pe, meIndicator, bollIndicator, pc, fills, finalPnL,
                   lastValidQuote>>

NextProcess == CallProcess

SpecProcess == InitProcess /\ [][NextProcess]_vars

\* ------------------------------------------------ indicators on their own
\* Every indicator, and a strategy holding its own pair, is fed the same
\* candles one Process call at a time, as a test of the alpha package does.
MaxPeriod == 3

MaxFeed == 5

IndicatorPeriods == 1..MaxPeriod

Bar(t, o, h, l, c, v) ==
    [Time |-> t, Open |-> o, High |-> h, Low |-> l, Close |-> c, Volume |-> v]

\* well-formed bars: flat (high = low), rising, falling, and an all-zero bar
ValidBars(t) ==
    { Bar(t, 10000, 10000, 10000, 10000, 1000),
      Bar(t, 10000, 11000, 10000, 11000, 1000),
      Bar(t, 10000, 10000, 9000, 9000, 1000),
      Bar(t, 0, 0, 0, 0, 0) }

\* bars no exchange sends: a NaN close, an infinite volume
CorruptBars(t) ==
    { Bar(t, 10000, 10000, 10000, NaN, 1000),
      Bar(t, 10000, 10000, 10000, 10000, Inf) }

ClosesOf(cs) == [i \in 1..Len(cs) |-> cs[i].Close]

\* the bars that extend the closes 10, 11, 9 to 10, 11, 9, 12, 13 at
\* constant volume
ExampleBars(cs) ==
    IF ClosesOf(cs) = <<10000, 11000, 9000>> /\ cs[3].Volume = 1000
    THEN { Bar(4, 10000, 12000, 10000, 12000, 1000) }
    ELSE IF ClosesOf(cs) = <<10000, 11000, 9000, 12000>>
    THEN { Bar(5, 10000, 13000, 10000, 13000, 1000) }
    ELSE {}

IsValidCandle(c) ==
    /\ ~IsNaN(c.Open) /\ ~IsNaN(c.High) /\ ~IsNaN(c.Low) /\ ~IsNaN(c.Close)
    /\ ~IsNaN(c.Volume)
    /\ ~IsInf(c.Open) /\ ~IsInf(c.High) /\ ~IsInf(c.Low) /\ ~IsInf(c.Close)
    /\ ~IsInf(c.Volume)
    /\ c.Low <= c.Open /\ c.Open <= c.High
    /\ c.Low <= c.Close /\ c.Close <= c.High
    /\ c.Volume >= 0

AllValid(cs) == \A i \in 1..Len(cs) : IsValidCandle(cs[i])

\* the candles that may follow the feed cs: any well-formed bar, a corrupt
\* bar if the feed holds none yet, and the bars of the example feed
IndicatorCandleAt(cs) ==
    ValidBars(Len(cs) + 1)
        \cup (IF AllValid(cs) THEN CorruptBars(Len(cs) + 1) ELSE {})
        \cup ExampleBars(cs)

IndicatorStratParams(span) ==
    [MeSpan |-> 1, EmaSpan |-> span, BaseSpread |-> 100, InventoryLimit |-> 0,
     LotSize |-> 1, InventorySkewK |-> 0, TrendSkewK |-> 500, TrendBias |-> 0]

InitIndicators ==
    /\ driver = "indicators"
    /\ \E period \in IndicatorPeriods :
         /\ meIndicator = NewMeIndicator(period)
         /\ emaIndicator = NewEmaIndicator(period)
         /\ bollIndicator = NewBollingerIndicator(period, FromInt(2))
         /\ strategy = NewMmStrat(IndicatorStratParams(period))
    /\ feed = <<>>
    /\ ret = NoReturn
    /\ InitLoop
    /\ InitNoTrader

\* what the calls returned, and what the strategy's own indicators returned
Returned(m, e, b, sm, se) ==
    [called |-> TRUE,
     me |-> [ok |-> m.ok, priceChange |-> m.priceChange,
             totalMovement |-> m.totalMovement, efficiency |-> m.efficiency],
     ema |-> [ok |-> e.ok, normSlope |-> e.normSlope],
     boll |-> [ok |-> b.ok, bands |-> b.bands],
     meOk |-> sm.ok,
     emaOk |-> se.ok,
     emaNormSlope |-> se.normSlope]

\* meIndicator.Process(c); emaIndicator.Process(c); bollIndicator.Process(c);
\* ok, quote := strategy.Process(c, 0)
FeedIndicators ==
    /\ driver = "indicators"
    /\ Len(feed) < MaxFeed
    /\ \E c \in IndicatorCandleAt(feed) :
         \E m \in {MeProcess(meIndicator, c)},
            e \in {EmaProcess(emaIndicator, c)},
            b \in {BollingerProcess(bollIndicator, c)},
            r \in {MmStratProcess(strategy, c, 0)} :
            /\ meIndicator' = m.indi
            /\ emaIndicator' = e.indi
            /\ bollIndicator' = b.indi
            /\ strategy' = r.s
            /\ ok' = r.ok
            /\ quote' = r.quote
            /\ ret' = Returned(m, e, b, MeProcess(strategy.meIndi, c),
                               EmaProcess(strategy.emaIndi, c))
            /\ candle' = c
            /\ feed' = Append(feed, c)
    /\ n' = n + 1
    /\ invArg' = 0
    /\ UNCHANGED <<driver, pe, pc, fills, finalPnL, lastValidQuote, trader>>

NextIndicators == FeedIndicators

SpecIndicators == InitIndicators /\ [][NextIndicators]_vars

\* ------------------------------------------------ the quote arithmetic
\* The part of MmStrat.Process after the readiness test, as a function of the
\* strategy's parameters, the efficiency its indicator holds, the candle's
\* close and the inventory.
QuoteBaseSpreads == {1, 2}

QuoteCloses == {10000, 50000, 100000}

QuoteEfficiencies == {0, 100, 500}

\* skew coefficients: off, the usual sign, the opposite sign
QuoteSkews == {-500, 0, 500}

QuoteTrendBiases == {0, 100}

QuoteParamSets ==
    { [MeSpan |-> 1, EmaSpan |-> 1, BaseSpread |-> b, InventoryLimit |-> l,
       LotSize |-> 1, InventorySkewK |-> ik, TrendSkewK |-> tk, TrendBias |-> tb] :
        b \in QuoteBaseSpreads, l \in 0..MaxInventoryLimit,
        ik \in QuoteSkews, tk \in QuoteSkews, tb \in QuoteTrendBiases }

\* a strategy whose MeIndicator has stored the given signal
StratHolding(params, efficiency, isBearish) ==
    [NewMmStrat(params) EXCEPT !.meIndi.Efficiency = efficiency,
                               !.meIndi.IsBearish = isBearish]

InitQuote ==
    /\ driver = "quote"
    /\ \E params \in QuoteParamSets, efficiency \in QuoteEfficiencies,
          isBearish \in BOOLEAN :
         strategy = StratHolding(params, efficiency, isBearish)
    /\ meIndicator = NoIndicator
    /\ bollIndicator = NoIndicator
    /\ InitNoIndicatorRun
    /\ InitLoop
    /\ InitNoTrader

\* the quote Process builds for candle c once both indicators are ready
QuoteCandle ==
    /\ driver = "quote"
    /\ n = 0
    /\ \E closePrice \in QuoteCloses, inventory \in -MaxInventory..MaxInventory :
         \E c \in {Bar(1, closePrice, closePrice, closePrice, closePrice, 1000)} :
            /\ candle' = c
            /\ invArg' = inventory
            /\ quote' = BuildQuote(strategy, c, inventory)
    /\ ok' = TRUE
    /\ n' = 1
    /\ UNCHANGED indicatorRun
    /\ UNCHANGED trader
    /\ UNCHANGED <<driver, pe, strategy, meIndicator, bollIndicator, pc, fills,
                   finalPnL, lastValidQuote>>

NextQuote == QuoteCandle

SpecQuote == InitQuote /\ [][NextQuote]_vars

\* ------------------------------------------------ the paper engine on its own
\* PaperEngine driven directly, as a test of the alpha package does: each
\* cycle calls ApplyFills on a candle and then FinalizeCandle with that
\* candle, any quote and the fills ApplyFills returned.
MaxEngineCandles == 4

EngineBid == 9000

EngineAsk == 11000

\* bars around 10: one that trades down to the bid, one that trades up to the
\* ask, one that does both
EngineCandleAt(t) ==
    { Bar(t, 10000, 10000, EngineBid, 10000, 1000),
      Bar(t, 10000, EngineAsk, 10000, 10000, 1000),
      Bar(t, 10000, EngineAsk, EngineBid, 10000, 1000) }

\* the quote with both sides active, one lot each
FullQuote(t) ==
    [Time |-> t,
     BidPrice |-> EngineBid, BidSize |-> 1, BidActive |-> TRUE,
     AskPrice |-> EngineAsk, AskSize |-> 1, AskActive |-> TRUE,
     Valid |-> TRUE]

\* the full quote and the quotes that differ from it in one respect
EngineQuotes(t) ==
    { FullQuote(t),
      [FullQuote(t) EXCEPT !.Valid = FALSE],
      [FullQuote(t) EXCEPT !.BidActive = FALSE],
      [FullQuote(t) EXCEPT !.BidSize = 0],
      [FullQuote(t) EXCEPT !.BidPrice = NaN],
      [FullQuote(t) EXCEPT !.AskActive = FALSE],
      [FullQuote(t) EXCEPT !.AskSize = 0],
      [FullQuote(t) EXCEPT !.AskPrice = NaN],
      ZeroQuote }

InitEngine ==
    /\ driver = "engine"
    /\ strategy = NewMmStrat(IndicatorStratParams(1))
    /\ meIndicator = NoIndicator
    /\ bollIndicator = NoIndicator
    /\ InitNoIndicatorRun
    /\ InitLoop
    /\ InitNoTrader

\* fills := pe.ApplyFills(c)
EngineApplyFills ==
    /\ driver = "engine"
    /\ pc = "head"
    /\ n < MaxEngineCandles
    /\ \E c \in EngineCandleAt(n + 1) :
         \E r \in {ApplyFills(pe, c)} :
            /\ candle' = c
            /\ pe' = r.pe
            /\ fills' = r.fills
    /\ n' = n + 1
    /\ pc' = "finalize"
    /\ UNCHANGED indicatorRun
    /\ UNCHANGED trader
    /\ UNCHANGED <<driver, strategy, meIndicator, bollIndicator, ok, quote,
                   finalPnL, invArg, lastValidQuote>>

\* row := pe.FinalizeCandle(c, quote, fills)
EngineFinalize ==
    /\ driver = "engine"
    /\ pc = "finalize"
    /\ \E q \in EngineQuotes(candle.Time) :
         \E r \in {FinalizeCandle(pe, candle, q, fills)} :
            /\ quote' = q
            /\ pe' = r.pe
    /\ pc' = "head"
    /\ UNCHANGED indicatorRun
    /\ UNCHANGED trader
    /\ UNCHANGED <<driver, strategy, meIndicator, bollIndicator, n, candle, fills,
                   ok, finalPnL, invArg, lastValidQuote>>

NextEngine == EngineApplyFills \/ EngineFinalize

SpecEngine == InitEngine /\ [][NextEngine]_vars

\* --------------------------------------- a MeIndicator of any period
\* NewMeIndicator takes any int as the period: the periods that disable the
\* indicator (0, -1, the least int) and, for contrast, period 1, each fed any
\* candles one Process call at a time.
AnyPeriods == {IntMin, -1, 0, 1}

InitAnyPeriod ==
    /\ driver = "period"
    /\ \E period \in AnyPeriods : meIndicator = NewMeIndicator(period)
    /\ strategy = NewMmStrat(IndicatorStratParams(1))
    /\ emaIndicator = NoIndicator
    /\ bollIndicator = NoIndicator
    /\ feed = <<>>
    /\ ret = NoReturn
    /\ InitLoop
    /\ InitNoTrader

\* ok := meIndicator.Process(c)   (sc, ok := ... in the bollinger program)
FeedAnyPeriod ==
    /\ driver = "period"
    /\ Len(feed) < MaxFeed
    /\ \E c \in ValidBars(Len(feed) + 1) \cup CorruptBars(Len(feed) + 1) :
         \E m \in {MeProcess(meIndicator, c)},
            lm \in {LegacyMeProcess(meIndicator, c)} :
            /\ meIndicator' = m.indi
            /\ ret' = [called |-> TRUE, meOk |-> m.ok, legacyOk |-> lm.ok,
                       legacyIndi |-> lm.indi]
            /\ candle' = c
            /\ feed' = Append(feed, c)
    /\ n' = n + 1
    /\ UNCHANGED <<driver, pe, strategy, emaIndicator, bollIndicator, pc, fills,
                   ok, quote, finalPnL, invArg, lastValidQuote, trader>>

NextAnyPeriod == FeedAnyPeriod

SpecAnyPeriod == InitAnyPeriod /\ [][NextAnyPeriod]_vars

\* ------------------------------------------------------------ the live run
\* main's live mode: WsKline calls the candle callback for each message; on a
\* closed bar the callback runs strategy.Process and, when ok, trader.Apply.
\* Apply cancels the open orders with a request it waits for and then starts
\* one goroutine per active side to place the order. The exchange answers
\* requests in any order, or not at all; it fills resting orders and reports
\* the position on the user stream, which the wsUser goroutine copies to pz.
MaxLiveCandles == 3

\* math.Pow10(params.PxPrecision) for a price precision of 2 decimals
LivePxFactor == 100

\* params.TradeSz: 0.01 per lot
LiveTradeSz == 10

\* params.InventoryLimit of the live run
LiveInventoryLimit == 1

\* the parameters of the live run: one lot per side, at most one lot held
LiveStratParams ==
    [IndicatorStratParams(1) EXCEPT !.InventoryLimit = LiveInventoryLimit]

\* NewBinance and Sync, with what the exchange holds for the account: cancel
\* is the state of the cancel request of Apply ("none", "sent", "answered"),
\* placing the placeOrder goroutines whose request the exchange has not
\* answered yet, resting the orders open at the exchange, position the
\* position the exchange books (b.pz = b.getPz() reads it at Sync), stream
\* the ACCOUNT_UPDATE events wsUser has not read yet
NewBinance ==
    [connected |-> TRUE, pxFactor |-> LivePxFactor, tradeSz |-> LiveTradeSz,
     pz |-> 0, cancel |-> "none", placing |-> {}, resting |-> {},
     position |-> 0, stream |-> <<>>]

\* not the code: Inventory() asking the exchange for the booked position
BinanceInventory_ReadsExchange(b) == WrapInt(b.position \div b.tradeSz)

\* int(math.Floor(b.pz / b.tradeSz))
BinanceInventory(b) == WrapInt(b.pz \div b.tradeSz)

\* math.Floor(px * pxFactor) / pxFactor
FloorPx(px, b) == (px \div (FP \div b.pxFactor)) * (FP \div b.pxFactor)

\* math.Ceil(px * pxFactor) / pxFactor
CeilPx(px, b) == -(((-px) \div (FP \div b.pxFactor)) * (FP \div b.pxFactor))

\* the placeOrder calls Apply starts for a quote: (qty, px), qty < 0 to sell
PlaceOrderCalls(q, b) ==
    (IF q.BidActive /\ q.BidSize > 0 /\ ~IsNaN(q.BidPrice)
     THEN { [cycle |-> q.Time, qty |-> FMul(FromInt(q.BidSize), b.tradeSz),
             px |-> FloorPx(q.BidPrice, b)] }
     ELSE {})
    \cup
    (IF q.AskActive /\ q.AskSize > 0 /\ ~IsNaN(q.AskPrice)
     THEN { [cycle |-> q.Time, qty |-> FNeg(FMul(FromInt(q.AskSize), b.tradeSz)),
             px |-> CeilPx(q.AskPrice, b)] }
     ELSE {})

\* placeOrder after a rejection with code -5022, -5028 or -1008:
\* time.Sleep(500 * time.Millisecond); b.placeOrder(qty, 0), which posts
\* priceMatch=QUEUE and timeInForce=GTC in place of a price
RetriedOrder(o) == [o EXCEPT !.px = 0]

\* the bars of the live stream: flat or rising
LiveBars(t) ==
    { Bar(t, 10000, 10000, 10000, 10000, 1000),
      Bar(t, 10000, 11000, 10000, 11000, 1000) }

\* before the first message of WsKline: x is the marker k.x of the latest
\* message, called whether the callback called strategy.Process for it
NoMessage == [called |-> FALSE, x |-> FALSE]

InitLive ==
    /\ driver = "live"
    /\ strategy = NewMmStrat(LiveStratParams)
    /\ meIndicator = NoIndicator
    /\ bollIndicator = NoIndicator
    /\ emaIndicator = NoIndicator
    /\ feed = <<>>
    /\ ret = NoMessage
    /\ pe = NewPaperEngine
    /\ pc = "head"
    /\ n = 0
    /\ candle = ZeroCandle
    /\ fills = <<>>
    /\ ok = FALSE
    /\ quote = ZeroQuote
    /\ finalPnL = 0
    /\ invArg = 0
    /\ lastValidQuote = ZeroQuote
    /\ trader = NewBinance

\* what the callback does with a closed bar up to the point where Apply waits:
\* ok, quote := strategy.Process(c, trader.Inventory()); if !ok { return };
\* trader.Apply(quote) -> b.cancelOrders() -> b.client.Do(req, nil)
LiveClosedBar(c, r) ==
    /\ strategy' = r.s
    /\ ok' = r.ok
    /\ quote' = r.quote
    /\ invArg' = BinanceInventory(trader)
    /\ pc' = IF r.ok THEN "cancel" ELSE "head"
    /\ trader' = IF r.ok THEN [trader EXCEPT !.cancel = "sent"] ELSE trader

\* not the code: a callback without `if b`, which hands every message to
\* strategy.Process
LiveTick_IgnoresMarker ==
    /\ driver = "live"
    /\ pc = "head"
    /\ n < MaxLiveCandles
    /\ Len(feed) < MaxLiveCandles
    /\ \E c \in LiveBars(n + 1), closed \in BOOLEAN :
         /\ candle' = c
         /\ ret' = [called |-> TRUE, x |-> closed]
         /\ \E r \in {MmStratProcess(strategy, c, BinanceInventory(trader))} :
               LiveClosedBar(c, r)
         /\ feed' = Append(feed, c)
         /\ n' = IF closed THEN n + 1 ELSE n
    /\ UNCHANGED <<driver, pe, meIndicator, bollIndicator, fills, finalPnL,
                   lastValidQuote, emaIndicator>>

\* WsKline reads a message of the bar in progress and calls the callback with
\* the candle and k.x, the marker of a closed bar: func(c Candle, b bool) {
\* if b { ... } }. The exchange sends any number of updates of a bar and then
\* its closing message; feed records the candles handed to strategy.Process,
\* ret the marker of the latest message
LiveTick ==
    /\ driver = "live"
    /\ pc = "head"
    /\ n < MaxLiveCandles
    /\ \E c \in LiveBars(n + 1), closed \in BOOLEAN :
         /\ candle' = c
         /\ ret' = [called |-> closed, x |-> closed]
         /\ IF closed
            THEN /\ \E r \in {MmStratProcess(strategy, c, BinanceInventory(trader))} :
                       LiveClosedBar(c, r)
                 /\ feed' = Append(feed, c)
                 /\ n' = n + 1
            ELSE UNCHANGED <<strategy, ok, quote, invArg, pc, trader, feed, n>>
    /\ UNCHANGED <<driver, pe, meIndicator, bollIndicator, fills, finalPnL,
                   lastValidQuote, emaIndicator>>

\* WsKline: ReadMessage fails, the loop closes the connection, sleeps a second
\* and dials again; the bar that closed meanwhile is never delivered
LiveMissesBar ==
    /\ driver = "live"
    /\ pc = "head"
    /\ n < MaxLiveCandles
    /\ n' = n + 1
    /\ UNCHANGED indicatorRun
    /\ UNCHANGED <<driver, pe, strategy, meIndicator, bollIndicator, pc, candle,
                   fills, ok, quote, finalPnL, invArg, lastValidQuote, trader>>

\* the exchange takes the DELETE allOpenOrders request and answers it
ExchangeCancels ==
    /\ driver = "live"
    /\ pc # "panic"
    /\ trader.cancel = "sent"
    /\ trader' = [trader EXCEPT !.cancel = "answered", !.resting = {}]
    /\ UNCHANGED indicatorRun
    /\ UNCHANGED <<driver, pe, strategy, meIndicator, bollIndicator, pc, n, candle,
                   fills, ok, quote, finalPnL, invArg, lastValidQuote>>

\* cancelOrders: err := b.client.Do(req, nil); if err != nil { panic(err) }
LiveCancelFails ==
    /\ driver = "live"
    /\ pc = "cancel"
    /\ trader.cancel = "sent"
    /\ pc' = "panic"
    /\ trader' = [trader EXCEPT !.cancel = "none"]
    /\ UNCHANGED indicatorRun
    /\ UNCHANGED <<driver, pe, strategy, meIndicator, bollIndicator, n, candle,
                   fills, ok, quote, finalPnL, invArg, lastValidQuote>>

\* cancelOrders has returned: Apply starts `go b.placeOrder(...)` for each
\* active side and returns
LiveApplyPlaces ==
    /\ driver = "live"
    /\ pc = "cancel"
    /\ trader.cancel = "answered"
    /\ trader' = [trader EXCEPT !.cancel = "none",
                                !.placing = @ \cup PlaceOrderCalls(quote, trader)]
    /\ pc' = "head"
    /\ UNCHANGED indicatorRun
    /\ UNCHANGED <<driver, pe, strategy, meIndicator, bollIndicator, n, candle,
                   fills, ok, quote, finalPnL, invArg, lastValidQuote>>

\* what the exchange holds of an order it took: the cycle it was placed in
\* and the signed quantity
RestingOrder(o) == [cycle |-> o.cycle, qty |-> o.qty]

\* the exchange takes the POST order request of one placeOrder goroutine and
\* rests the order: the response has no "msg" and placeOrder returns
ExchangeTakesOrder ==
    /\ driver = "live"
    /\ pc # "panic"
    /\ \E o \in trader.placing :
         trader' = [trader EXCEPT !.placing = @ \ {o},
                                  !.resting = @ \cup {RestingOrder(o)}]
    /\ UNCHANGED indicatorRun
    /\ UNCHANGED <<driver, pe, strategy, meIndicator, bollIndicator, pc, n, candle,
                   fills, ok, quote, finalPnL, invArg, lastValidQuote>>

\* the exchange answers a POST order request with "msg" and code -5022, -5028
\* or -1008: placeOrder sleeps and calls itself with px = 0
ExchangeRejectsOrder ==
    /\ driver = "live"
    /\ pc # "panic"
    /\ \E o \in trader.placing :
         trader' = [trader EXCEPT !.placing = (@ \ {o}) \cup {RetriedOrder(o)}]
    /\ UNCHANGED indicatorRun
    /\ UNCHANGED <<driver, pe, strategy, meIndicator, bollIndicator, pc, n, candle,
                   fills, ok, quote, finalPnL, invArg, lastValidQuote>>

\* the exchange answers a POST order request with "msg" and another code:
\* placeOrder logs it and returns
ExchangeRefusesOrder ==
    /\ driver = "live"
    /\ pc # "panic"
    /\ \E o \in trader.placing :
         trader' = [trader EXCEPT !.placing = @ \ {o}]
    /\ UNCHANGED indicatorRun
    /\ UNCHANGED <<driver, pe, strategy, meIndicator, bollIndicator, pc, n, candle,
                   fills, ok, quote, finalPnL, invArg, lastValidQuote>>

\* placeOrder: err := b.client.Do(req, resp); if err != nil { panic(err) },
\* in a goroutine without recover: the program ends, and with it every
\* goroutine; the model follows the exchange no further
LivePlaceFails ==
    /\ driver = "live"
    /\ pc # "panic"
    /\ \E o \in trader.placing :
         trader' = [trader EXCEPT !.placing = {}, !.cancel = "none"]
    /\ pc' = "panic"
    /\ UNCHANGED indicatorRun
    /\ UNCHANGED <<driver, pe, strategy, meIndicator, bollIndicator, n, candle,
                   fills, ok, quote, finalPnL, invArg, lastValidQuote>>

\* the exchange fills a resting order, books the position and puts an
\* ACCOUNT_UPDATE event with the new position amount on the user stream
ExchangeFills ==
    /\ driver = "live"
    /\ pc # "panic"
    /\ \E o \in trader.resting :
         trader' = [trader EXCEPT !.resting = @ \ {o},
                                  !.position = @ + o.qty,
                                  !.stream = Append(@, trader.position + o.qty)]
    /\ UNCHANGED indicatorRun
    /\ UNCHANGED <<driver, pe, strategy, meIndicator, bollIndicator, pc, n, candle,
                   fills, ok, quote, finalPnL, invArg, lastValidQuote>>

\* wsUser reads an ACCOUNT_UPDATE event: b.pz = position.Get("pa").Float(),
\* a plain store the candle callback reads without synchronisation; the
\* callback's load returns the value before or after the store
WsUserUpdate ==
    /\ driver = "live"
    /\ pc # "panic"
    /\ trader.stream # <<>>
    /\ trader' = [trader EXCEPT !.pz = Head(trader.stream),
                                !.stream = Tail(@)]
    /\ UNCHANGED indicatorRun
    /\ UNCHANGED <<driver, pe, strategy, meIndicator, bollIndicator, pc, n, candle,
                   fills, ok, quote, finalPnL, invArg, lastValidQuote>>

NextLive ==
    \/ LiveTick
    \/ LiveMissesBar
    \/ ExchangeCancels
    \/ LiveCancelFails
    \/ LiveApplyPlaces
    \/ ExchangeTakesOrder
    \/ ExchangeRejectsOrder
    \/ ExchangeRefusesOrder
    \/ LivePlaceFails
    \/ ExchangeFills
    \/ WsUserUpdate

SpecLive == InitLive /\ [][NextLive]_vars

\* ------------------------------------------------- one placeOrder call alone
\* Binance.placeOrder(qty, px) followed through its submissions: n counts the
\* POST requests the call and the calls it makes of itself have sent, pc is
\* "posted" while a request waits for its response, "sleep" in time.Sleep
\* before the retry, "returned" or "panic" at the end.
MaxSubmissions == 3

\* quantities of one to three lots, to buy and to sell
PlaceQtys == { lots * LiveTradeSz : lots \in {-3, -2, -1, 1, 2, 3} }

\* prices on the tick grid around 10, and 0, which asks for priceMatch=QUEUE
PlacePxs == { 0, 9980, 9990, 10000, 10010, 10020 }

InitPlaceOrder ==
    /\ driver = "place"
    /\ strategy = NewMmStrat(LiveStratParams)
    /\ meIndicator = NoIndicator
    /\ bollIndicator = NoIndicator
    /\ InitNoIndicatorRun
    /\ pe = NewPaperEngine
    /\ pc = "posted"
    /\ n = 1
    /\ candle = ZeroCandle
    /\ fills = <<>>
    /\ ok = FALSE
    /\ quote = ZeroQuote
    /\ finalPnL = 0
    /\ invArg = 0
    /\ lastValidQuote = ZeroQuote
    /\ \E qty \in PlaceQtys, px \in PlacePxs :
         trader = [NewBinance EXCEPT
                     !.placing = { [cycle |-> 1, qty |-> qty, px |-> px] }]

\* the response has no "msg": the order rests and placeOrder returns
PlaceAccepted ==
    /\ driver = "place"
    /\ pc = "posted"
    /\ \E o \in trader.placing :
         trader' = [trader EXCEPT !.placing = {}, !.resting = {RestingOrder(o)}]
    /\ pc' = "returned"
    /\ UNCHANGED indicatorRun
    /\ UNCHANGED <<driver, pe, strategy, meIndicator, bollIndicator, n, candle,
                   fills, ok, quote, finalPnL, invArg, lastValidQuote>>

\* the response has "msg" and code -5022, -5028 or -1008, whatever the
\* request was: time.Sleep(500 * time.Millisecond)
PlaceRejected ==
    /\ driver = "place"
    /\ pc = "posted"
    /\ pc' = "sleep"
    /\ UNCHANGED indicatorRun
    /\ UNCHANGED <<driver, pe, strategy, meIndicator, bollIndicator, n, candle,
                   fills, ok, quote, finalPnL, invArg, lastValidQuote, trader>>

\* after the sleep: b.placeOrder(qty, 0), which posts the next request; the
\* code holds no count of the retries, the model stops at MaxSubmissions
PlaceRetries ==
    /\ driver = "place"
    /\ pc = "sleep"
    /\ n < MaxSubmissions
    /\ trader' = [trader EXCEPT !.placing = { RetriedOrder(o) : o \in @ }]
    /\ n' = n + 1
    /\ pc' = "posted"
    /\ UNCHANGED indicatorRun
    /\ UNCHANGED <<driver, pe, strategy, meIndicator, bollIndicator, candle,
                   fills, ok, quote, finalPnL, invArg, lastValidQuote>>

\* the response has "msg" and another code: slog.Error and return
PlaceRefused ==
    /\ driver = "place"
    /\ pc = "posted"
    /\ trader' = [trader EXCEPT !.placing = {}]
    /\ pc' = "returned"
    /\ UNCHANGED indicatorRun
    /\ UNCHANGED <<driver, pe, strategy, meIndicator, bollIndicator, n, candle,
                   fills, ok, quote, finalPnL, invArg, lastValidQuote>>

\* err := b.client.Do(req, resp); if err != nil { panic(err) }
PlaceFails ==
    /\ driver = "place"
    /\ pc = "posted"
    /\ trader' = [trader EXCEPT !.placing = {}]
    /\ pc' = "panic"
    /\ UNCHANGED indicatorRun
    /\ UNCHANGED <<driver, pe, strategy, meIndicator, bollIndicator, n, candle,
                   fills, ok, quote, finalPnL, invArg, lastValidQuote>>

NextPlaceOrder ==
    \/ PlaceAccepted
    \/ PlaceRejected
    \/ PlaceRetries
    \/ PlaceRefused
    \/ PlaceFails

SpecPlaceOrder == InitPlaceOrder /\ [][NextPlaceOrder]_vars

\* ------------------------------------------------------------ FetchKlines
\* FetchKlines(symbol, interval, limit, endTime) of the two adapters: the
\* request asks for min(limit, 1500) bars, the result is a slice of limit
\* candles filled from the rows of the response.
MaxFetchLimit == 4

\* the longest response the exchange sends
MaxResponse == 5

\* the 1500 of min(limit, 1500), at the scale of the limits above
KlineCap == 3

FetchLimits == -1..MaxFetchLimit

\* the limit query argument: strconv.Itoa(min(limit, 1500))
RequestedLimit(limit) == IF limit < KlineCap THEN limit ELSE KlineCap

\* the bars of a response of m rows after time t0, oldest first, all flat or
\* all rising
ResponseBars(m, t0, rising) ==
    [i \in 1..m |->
        IF rising THEN Bar(t0 + i, 10000, 11000, 10000, 11000, 1000)
        ELSE Bar(t0 + i, 10000, 10000, 10000, 10000, 1000)]

Reverse(rows) == [i \in 1..Len(rows) |-> rows[Len(rows) + 1 - i]]

FetchPanics == [panic |-> TRUE, candles |-> <<>>]

\* bn.FetchKlines after the response is parsed: candles := make([]alpha.Candle,
\* limit); for i, v := range rows { candles[i] = ... }; return candles.
\* make panics on a negative length, candles[i] on i >= limit
BnFetchKlines(limit, rows) ==
    IF limit < 0 \/ Len(rows) > limit THEN FetchPanics
    ELSE [panic |-> FALSE,
          candles |-> [k \in 1..limit |->
                          IF k <= Len(rows) THEN rows[k] ELSE ZeroCandle]]

\* x10.FetchKlines, whose rows come newest first: n := limit - 1;
\* for i, v := range rows { candles[n-i] = ... }
X10FetchKlines(limit, rows) ==
    IF limit < 0 \/ Len(rows) > limit THEN FetchPanics
    ELSE [panic |-> FALSE,
          candles |-> [k \in 1..limit |->
                          IF limit + 1 - k <= Len(rows)
                          THEN rows[limit + 1 - k] ELSE ZeroCandle]]

InitFetch ==
    /\ driver = "fetch"
    /\ strategy = NewMmStrat(LiveStratParams)
    /\ meIndicator = NoIndicator
    /\ bollIndicator = NoIndicator
    /\ InitNoIndicatorRun
    /\ InitLoop
    /\ InitNoTrader

\* main: candles := bn.FetchKlines(params.Symbol, params.Interval,
\* params.Limit, params.EndTime); ret holds the call and its result, feed the
\* candles returned
FetchFromBn ==
    /\ driver = "fetch"
    /\ ~ret.called
    /\ \E limit \in FetchLimits, m \in 0..MaxResponse, t0 \in {0, 1},
          rising \in BOOLEAN :
         \E r \in {BnFetchKlines(limit, ResponseBars(m, t0, rising))} :
            /\ ret' = [called |-> TRUE, adapter |-> "bn", limit |-> limit,
                       rows |-> ResponseBars(m, t0, rising), panic |-> r.panic]
            /\ feed' = r.candles
            /\ pc' = IF r.panic THEN "panic" ELSE "head"
    /\ UNCHANGED <<driver, pe, strategy, meIndicator, bollIndicator, n, candle,
                   fills, ok, quote, finalPnL, invArg, lastValidQuote,
                   emaIndicator, trader>>

\* main: candles := x10.FetchKlines(...)
FetchFromX10 ==
    /\ driver = "fetch"
    /\ ~ret.called
    /\ \E limit \in FetchLimits, m \in 0..MaxResponse, t0 \in {0, 1},
          rising \in BOOLEAN :
         \E r \in {X10FetchKlines(limit, Reverse(ResponseBars(m, t0, rising)))} :
            /\ ret' = [called |-> TRUE, adapter |-> "x10", limit |-> limit,
                       rows |-> ResponseBars(m, t0, rising), panic |-> r.panic]
            /\ feed' = r.candles
            /\ pc' = IF r.panic THEN "panic" ELSE "head"
    /\ UNCHANGED <<driver, pe, strategy, meIndicator, bollIndicator, n, candle,
                   fills, ok, quote, finalPnL, invArg, lastValidQuote,
                   emaIndicator, trader>>

NextFetch ==
    \/ FetchFromBn
    \/ FetchFromX10

SpecFetch == InitFetch /\ [][NextFetch]_vars

\* ================================================================== claims
\* steps of the backtest loop, recognised by the loop position
IsApplyFillsStep == pc' = "process" /\ pc \in {"head", "apply"}

IsFinalizeStep == pc = "finalize" /\ pc' = "head"

BetweenCycles == pc \in {"head", "done"}

\* the trades a step appended to the trade log
NewTradeIndexes == (Len(pe.trades) + 1)..Len(pe'.trades)

\* C1: a resting order is tested for a fill only against the candle after the
\* one whose quote created it: every trade appended to the log fills an order
\* that was resting before the step, and carries the time of the next candle
\* (candle times are 1, 2, 3, ...), so trade.Time > order.PlacedAt.
C1_FillOnlyOnNextCandle ==
    [][\A i \in NewTradeIndexes :
          \E j \in 1..Len(pe.pendingOrders) :
             /\ pe.pendingOrders[j].Side = pe'.trades[i].Side
             /\ pe.pendingOrders[j].Price = pe'.trades[i].Price
             /\ pe.pendingOrders[j].PlacedAt < pe'.trades[i].Time
             /\ pe'.trades[i].Time = pe.pendingOrders[j].PlacedAt + 1]_vars

\* C1 witness: the orders quoted on candle 2 were both filled by candle 3
C1_Witness ==
    /\ pc = "process"
    /\ Len(fills) = 2
    /\ fills[1].Time = 3
    /\ pe.results[Len(pe.results)].Time = 2

RECURSIVE NetSize(_)
\* sum of buy sizes minus sum of sell sizes
NetSize(ts) ==
    IF ts = <<>> THEN 0
    ELSE (IF Head(ts).Side = "buy" THEN Head(ts).Size ELSE -Head(ts).Size)
         + NetSize(Tail(ts))

RECURSIVE NetCash(_)
\* sum of price*size over sells minus sum of price*size over buys
NetCash(ts) ==
    IF ts = <<>> THEN 0
    ELSE (IF Head(ts).Side = "sell" THEN Head(ts).Price * Head(ts).Size
                                    ELSE -(Head(ts).Price * Head(ts).Size))
         + NetCash(Tail(ts))

AppendedTrades == SubSeq(pe'.trades, Len(pe.trades) + 1, Len(pe'.trades))

\* C2: inventory is the net size of the trade log and cash its net proceeds
\* at the orders' prices; every step changes them by exactly the signed size
\* and the price*size of the trades it appended.
C2_AccountingIdentity ==
    /\ [](pe.inventory = NetSize(pe.trades) /\ pe.cash = NetCash(pe.trades))
    /\ [][/\ pe'.inventory - pe.inventory = NetSize(AppendedTrades)
          /\ pe'.cash - pe.cash = NetCash(AppendedTrades)
          /\ Len(pe'.trades) >= Len(pe.trades)
          /\ Len(pe'.trades) = Len(pe.trades) + 1 =>
               /\ AbsI(pe'.inventory - pe.inventory) = pe'.trades[Len(pe'.trades)].Size
               /\ AbsI(pe'.cash - pe.cash) =
                     pe'.trades[Len(pe'.trades)].Price * pe'.trades[Len(pe'.trades)].Size]_vars

\* C2 witness: the log holds a buy and a sell, and the position is open
C2_Witness ==
    /\ \E i \in 1..Len(pe.trades) : pe.trades[i].Side = "buy"
    /\ \E i \in 1..Len(pe.trades) : pe.trades[i].Side = "sell"
    /\ pe.inventory # 0

\* C3: once the backtest loop has ended, FinalPnL() is cash + inventory * the
\* close of the last candle the loop handed to ApplyFills, also when the
\* strategy returned ok = false for that candle.  Stated for the runs in
\* which that close and the engine's own mark are numbers, so that the two
\* sides can only differ by the candle they mark at.
C3_FinalPnLMarksLastCandle ==
    (/\ driver = "ema" /\ pc = "done" /\ n > 0
     /\ ~IsNaN(candle.Close) /\ ~IsNaN(pe.lastClose)) =>
        finalPnL = FAdd(pe.cash, FMul(FromInt(pe.inventory), candle.Close))

\* the latest cycle withheld its quote: the current program's strategy
\* returned ok = false, or the first program's strategy returned a quote that
\* is not valid
Withheld ==
    \/ driver = "ema" /\ ~ok
    \/ driver = "bollinger" /\ ~quote.Valid

\* C4: after a cycle in which the strategy withheld its quote the engine holds
\* no resting order, whether the driver skipped FinalizeCandle or called it
\* with a quote that is not valid, and whatever was resting before the cycle.
C4_WithheldQuoteLeavesNoOrders ==
    (BetweenCycles /\ n > 0 /\ Withheld) => pe.pendingOrders = <<>>

\* C4 witness: the current program's strategy withheld on a candle that had
\* two orders resting, of which one filled; FinalizeCandle was skipped
C4_Witness ==
    /\ driver = "ema" /\ pc = "head" /\ ~ok
    /\ lastValidQuote.Time = n - 1
    /\ lastValidQuote.BidActive /\ lastValidQuote.AskActive
    /\ Len(fills) = 1

\* the other case of C4: FinalizeCandle received a quote that is not valid on
\* a candle that had orders resting
C4_InvalidQuoteCase ==
    /\ driver = "bollinger" /\ pc = "head" /\ ~quote.Valid
    /\ quote.Time = n /\ lastValidQuote.Time = n - 1
    /\ pe.results[Len(pe.results)].Time = n

\* C5: with inventoryLimit = L > 0, Process activates the bid only if
\* |inventory + lotSize| <= L and the ask only if |inventory - lotSize| <= L,
\* for every inventory passed in.
C5_InventoryGating ==
    (driver = "process" /\ n > 0 /\ ok /\ strategy.InventoryLimit > 0) =>
        /\ quote.BidActive =>
              /\ -strategy.InventoryLimit <= invArg + strategy.LotSize
              /\ invArg + strategy.LotSize <= strategy.InventoryLimit
        /\ quote.AskActive =>
              /\ -strategy.InventoryLimit <= invArg - strategy.LotSize
              /\ invArg - strategy.LotSize <= strategy.InventoryLimit

\* the resting orders of one side
RestingOn(side) ==
    { i \in 1..Len(pe.pendingOrders) : pe.pendingOrders[i].Side = side }

\* C6: the engine holds at most two resting orders, at most one buy and at
\* most one sell; nothing is resting once ApplyFills has run, so no unfilled
\* order reaches the next cycle; and every resting order was placed by the
\* latest quote.
C6_AtMostOneOrderPerSide ==
    /\ Len(pe.pendingOrders) <= 2
    /\ Cardinality(RestingOn("buy")) <= 1
    /\ Cardinality(RestingOn("sell")) <= 1
    /\ Cardinality(RestingOn("buy")) + Cardinality(RestingOn("sell")) = Len(pe.pendingOrders)
    /\ pc \in {"process", "finalize"} => pe.pendingOrders = <<>>
    /\ \A i \in 1..Len(pe.pendingOrders) :
          quote.Valid /\ pe.pendingOrders[i].PlacedAt = quote.Time

\* C6 witness: two orders were resting, one filled, and the other is gone
C6_Witness ==
    /\ pc = "process"
    /\ quote.Valid /\ quote.BidActive /\ quote.AskActive /\ quote.Time = n - 1
    /\ Len(fills) = 1
    /\ pe.pendingOrders = <<>>

\* the fill condition of the claim, on the numbers themselves
Crosses(o, c) ==
    \/ o.Side = "buy" /\ c.Low <= o.Price
    \/ o.Side = "sell" /\ c.High >= o.Price

\* the resting orders that the candle crosses
CrossedOrders(c) ==
    { j \in 1..Len(pe.pendingOrders) : Crosses(pe.pendingOrders[j], c) }

SignedSize(o) == IF o.Side = "buy" THEN o.Size ELSE -o.Size

RECURSIVE CrossedSize(_, _)
\* net size bought by the crossed orders among `orders`
CrossedSize(orders, c) ==
    IF orders = <<>> THEN 0
    ELSE (IF Crosses(Head(orders), c) THEN SignedSize(Head(orders)) ELSE 0)
         + CrossedSize(Tail(orders), c)

RECURSIVE CrossedCost(_, _)
\* net price*size paid by the crossed orders among `orders`
CrossedCost(orders, c) ==
    IF orders = <<>> THEN 0
    ELSE (IF Crosses(Head(orders), c)
          THEN Head(orders).Price * SignedSize(Head(orders)) ELSE 0)
         + CrossedCost(Tail(orders), c)

\* C7: ApplyFills(candle) fills a resting buy iff candle.low <= order.price
\* and a resting sell iff candle.high >= order.price; a fill is a trade of the
\* order's side, full size and price at the candle's time, moving inventory by
\* the signed size and cash by the opposite of price*size; an order that is
\* not crossed leaves no trade and changes neither inventory nor cash.
C7_FillIffCrossed ==
    [][IsApplyFillsStep =>
         /\ Len(AppendedTrades) = Cardinality(CrossedOrders(candle'))
         /\ \A j \in CrossedOrders(candle') :
               \E i \in 1..Len(AppendedTrades) :
                  AppendedTrades[i] =
                     [Side |-> pe.pendingOrders[j].Side, Time |-> candle'.Time,
                      Price |-> pe.pendingOrders[j].Price,
                      Size |-> pe.pendingOrders[j].Size]
         /\ \A j \in 1..Len(pe.pendingOrders) :
               j \notin CrossedOrders(candle') =>
                  \A i \in 1..Len(AppendedTrades) :
                     AppendedTrades[i].Side # pe.pendingOrders[j].Side
         /\ CrossedOrders(candle') = {} =>
               /\ pe'.inventory = pe.inventory
               /\ pe'.cash = pe.cash
               /\ pe'.trades = pe.trades
         /\ pe'.inventory = pe.inventory + CrossedSize(pe.pendingOrders, candle')
         /\ pe'.cash = pe.cash - CrossedCost(pe.pendingOrders, candle')]_vars

\* C7 witness: the candle's low touched the resting buy exactly and its high
\* stayed below the resting sell: the buy alone filled
C7_Witness ==
    /\ pc = "process"
    /\ quote.Valid /\ quote.BidActive /\ quote.AskActive /\ quote.Time = n - 1
    /\ candle.Low = quote.BidPrice
    /\ candle.High < quote.AskPrice
    /\ fills = << [Side |-> "buy", Time |-> n, Price |-> quote.BidPrice,
                   Size |-> quote.BidSize] >>

\* C8: after every ApplyFills call no order is resting, whether or not one
\* filled, and the fills returned are the trades the call appended to the
\* trade log, in the same order.
C8_ApplyFillsClearsAndReturnsFills ==
    [][IsApplyFillsStep =>
         /\ pe'.pendingOrders = <<>>
         /\ pe'.trades = pe.trades \o fills'
         /\ fills' = AppendedTrades]_vars

\* C8 witness: two orders were resting, the candle crossed neither, and
\* nothing is resting after ApplyFills
C8_Witness ==
    /\ pc = "process"
    /\ quote.Valid /\ quote.BidActive /\ quote.AskActive /\ quote.Time = n - 1
    /\ candle.Low > quote.BidPrice /\ candle.High < quote.AskPrice
    /\ fills = <<>>
    /\ pe.pendingOrders = <<>>

\* C9 as stated: inventory and cash change only in ApplyFills, and the
\* resting orders change only in FinalizeCandle.
C9_FrameAsStated ==
    [][/\ (pe'.inventory # pe.inventory \/ pe'.cash # pe.cash) => IsApplyFillsStep
       /\ pe'.pendingOrders # pe.pendingOrders => IsFinalizeStep]_vars

\* C9 amended: inventory and cash change only in ApplyFills, which FinalizeCandle,
\* FinalPnL and strategy.Process leave alone; the resting orders change only
\* in FinalizeCandle, which installs the quote's orders, and in ApplyFills,
\* which only ever empties them.
C9_FrameAmended ==
    [][/\ (pe'.inventory # pe.inventory \/ pe'.cash # pe.cash) => IsApplyFillsStep
       /\ pe'.pendingOrders # pe.pendingOrders =>
             \/ IsFinalizeStep
             \/ IsApplyFillsStep /\ pe'.pendingOrders = <<>>
       /\ ~IsApplyFillsStep => pe'.trades = pe.trades]_vars

\* C9 witness: ApplyFills has moved inventory and cash and emptied the resting
\* orders, and FinalizeCandle has then installed the next ones
C9_Witness ==
    /\ pc = "head"
    /\ fills # <<>> /\ fills[1].Time = n
    /\ pe.inventory # 0 /\ pe.cash # 0
    /\ pe.pendingOrders # <<>>

\* the orders a quote implies: its active sides with positive size and a
\* price that is a number
ImpliedOrders(q) ==
    { [Side |-> "buy", Price |-> q.BidPrice, Size |-> q.BidSize, PlacedAt |-> q.Time] :
         x \in IF q.BidActive /\ q.BidSize > 0 /\ q.BidPrice # NaN THEN {1} ELSE {} }
    \cup
    { [Side |-> "sell", Price |-> q.AskPrice, Size |-> q.AskSize, PlacedAt |-> q.Time] :
         x \in IF q.AskActive /\ q.AskSize > 0 /\ q.AskPrice # NaN THEN {1} ELSE {} }

RestingOrders == { pe.pendingOrders[i] : i \in 1..Len(pe.pendingOrders) }

\* C10 as stated: between cycles the resting orders are exactly the orders
\* implied by the most recent valid quote.
C10_RestingIsLastValidQuote ==
    BetweenCycles =>
        /\ RestingOrders = ImpliedOrders(lastValidQuote)
        /\ Len(pe.pendingOrders) = Cardinality(RestingOrders)

\* C10 amended: between cycles the resting orders are exactly the orders
\* implied by the quote of the latest cycle when that quote is valid, and none
\* when the latest cycle withheld its quote; they all carry that one quote's
\* time, so orders of two cycles are never combined.
C10_RestingIsLatestCycleQuote ==
    BetweenCycles =>
        /\ RestingOrders = IF Withheld THEN {} ELSE ImpliedOrders(quote)
        /\ Len(pe.pendingOrders) = Cardinality(RestingOrders)
        /\ \A o \in RestingOrders : o.PlacedAt = quote.Time

\* C10 witness: a cycle withheld its quote right after a cycle that quoted
\* both sides; nothing is resting although the most recent valid quote
\* implies two orders
C10_Witness ==
    /\ pc = "head" /\ Withheld /\ n > 0
    /\ lastValidQuote.Valid /\ lastValidQuote.Time = n - 1
    /\ Cardinality(ImpliedOrders(lastValidQuote)) = 2
    /\ pe.pendingOrders = <<>>

\* a step that calls the strategy's Process inside the backtest loop
IsProcessStep == pc = "process" /\ pc' # "process"

\* the fills of the candle in hand are in the trade log and in the inventory
\* that Process receives
C11_ProcessSeesFills ==
    IsProcessStep =>
        /\ invArg' = pe.inventory
        /\ pe.inventory = NetSize(pe.trades)
        /\ Len(fills) <= Len(pe.trades)
        /\ fills = SubSeq(pe.trades, Len(pe.trades) - Len(fills) + 1, Len(pe.trades))
        /\ \A i \in 1..Len(fills) : fills[i].Time = candle.Time

\* Process is entered only from ApplyFills, FinalizeCandle only from Process
C11_RelativeOrder ==
    /\ (pc' = "process" /\ pc # "process") => pc \in {"head", "apply"}
    /\ (pc' = "finalize" /\ pc # "finalize") => pc = "process"
    /\ (pc' \in {"head", "done"} /\ pc # pc') => pc \in {"head", "process", "finalize"}

\* C11: in every cycle of the backtest driver ApplyFills(candle) is followed
\* by strategy.Process(candle, Inventory()), and that by FinalizeCandle(candle,
\* quote, fills); the inventory handed to Process for a candle includes every
\* fill ApplyFills made against that candle.
C11_ApplyFillsProcessFinalize ==
    [][/\ C11_RelativeOrder
       /\ C11_ProcessSeesFills
       /\ IsProcessStep => pc' = "finalize"]_vars

\* the two parts of C11 that do not depend on the cycle being completed
C11_OrderOfTheCallsMade == [][C11_RelativeOrder /\ C11_ProcessSeesFills]_vars

\* the rows and the P&L history follow the order of the candles
C12_RowsInCandleOrder ==
    /\ Len(pe.pnlHistory) = Len(pe.results)
    /\ \A i \in 1..Len(pe.results) :
          /\ pe.results[i].Time \in 1..n
          /\ i > 1 => pe.results[i - 1].Time < pe.results[i].Time

\* C12: FinalizeCandle appends exactly one ResultRow per candle the loop has
\* processed, withheld cycles included: between two cycles, and when the
\* backtest over n candles has ended, Results() holds n rows and PnLHistory()
\* n entries, the i-th row being the i-th candle's.
C12_OneRowPerCandle ==
    BetweenCycles =>
        /\ Len(pe.results) = n
        /\ Len(pe.pnlHistory) = n
        /\ \A i \in 1..Len(pe.results) : pe.results[i].Time = i

\* C13: a MeIndicator of period N > 0 reports ready = false on each of the
\* first N candles and ready = true on the (N+1)-th and on every later one,
\* whatever the candles hold (NaN closes and infinite volumes included); the
\* same for the period-1 indicator inside the strategy.
C13_MeWarmUp ==
    (driver = "indicators" /\ ret.called) =>
        /\ meIndicator.period > 0
        /\ ret.me.ok <=> Len(feed) >= meIndicator.period + 1
        /\ ret.meOk <=> Len(feed) >= strategy.meIndi.period + 1

\* C13 witness: a period-3 indicator is ready on the 4th candle of a feed that
\* holds a corrupt candle
C13_Witness ==
    /\ driver = "indicators" /\ ret.called
    /\ meIndicator.period = 3
    /\ Len(feed) = 4
    /\ ret.me.ok
    /\ ~AllValid(feed)

\* C14 as stated: an EmaIndicator of span N reports ready = false on each of
\* the first N candles and ready = true on every later one, its window holding
\* exactly N values whenever it is ready.
C14_EmaReadyAfterSpanCandles ==
    (driver = "indicators" /\ ret.called) =>
        /\ ret.ema.ok <=> Len(feed) >= emaIndicator.span + 1
        /\ ret.ema.ok => Len(emaIndicator.window) = emaIndicator.span

\* C14: an EmaIndicator of span N >= 1 reports ready = false on each of the
\* first N-1 candles and ready = true on the N-th candle, when its window
\* first holds N values, and on every later one; whenever it is ready the
\* window holds exactly N values.
C14_EmaReadyWhenWindowFull ==
    (driver = "indicators" /\ ret.called) =>
        /\ emaIndicator.span >= 1
        /\ ret.ema.ok <=> Len(feed) >= emaIndicator.span
        /\ ret.ema.ok => Len(emaIndicator.window) = emaIndicator.span
        /\ ~ret.ema.ok => Len(emaIndicator.window) = Len(feed)

\* C14 witness: a span-3 indicator is ready on the 3rd candle
C14_Witness ==
    /\ driver = "indicators" /\ ret.called
    /\ emaIndicator.span = 3
    /\ Len(feed) = 3
    /\ ret.ema.ok
    /\ Len(emaIndicator.window) = 3

\* the latest call was the first one at which the window of the strategy's
\* EmaIndicator was full
FirstFullWindowCall ==
    /\ driver = "indicators" /\ ret.called
    /\ ret.emaOk
    /\ Len(feed) = strategy.emaIndi.span

\* on that call Process computes no slope: its local normSlope stays NaN
C15_NoSlopeOnFirstFullWindow == FirstFullWindowCall => IsNaN(ret.emaNormSlope)

\* C15: on the first call at which the trend indicator's window is full there
\* is no previous mean and no slope, and the strategy withholds its quote
\* (ok = false) for that cycle; a quote can be produced only from the second
\* full-window call on.  Stated for feeds of well-formed candles.
C15_WithholdsOnFirstFullWindow ==
    /\ (FirstFullWindowCall /\ AllValid(feed)) => ~ok /\ ~quote.Valid
    /\ (driver = "indicators" /\ ret.called /\ ok /\ AllValid(feed)) =>
          Len(feed) >= strategy.emaIndi.span + 1

RECURSIVE SumOf(_)
\* from-scratch sum of a window
SumOf(w) == IF w = <<>> THEN 0 ELSE FAdd(Head(w), SumOf(Tail(w)))

RECURSIVE SumOfSquares(_)
SumOfSquares(w) ==
    IF w = <<>> THEN 0 ELSE FAdd(FMul(Head(w), Head(w)), SumOfSquares(Tail(w)))

MeanOf(w) == FDiv(SumOf(w), FromInt(Len(w)))

\* sqrt(max(0, variance)) of a window, from scratch
StdDevOfWindow(w) ==
    FSqrt(FMax(0, FSub(FDiv(SumOfSquares(w), FromInt(Len(w))),
                       FMul(MeanOf(w), MeanOf(w)))))

\* clamp(slope / denom, -1, 1) with denom = stdDev, else |previousMean|, else
\* |mean|, and 0 when all three are zero
ClampedSlope(mean, previousMean, stdDev) ==
    IF stdDev # 0
    THEN clampFloat(FDiv(FSub(mean, previousMean), stdDev), FromInt(-1), FromInt(1))
    ELSE IF FAbs(previousMean) # 0
    THEN clampFloat(FDiv(FSub(mean, previousMean), FAbs(previousMean)),
                    FromInt(-1), FromInt(1))
    ELSE IF FAbs(mean) # 0
    THEN clampFloat(FDiv(FSub(mean, previousMean), FAbs(mean)), FromInt(-1), FromInt(1))
    ELSE 0

\* a ready EmaIndicator call that had a previous mean, on well-formed candles
EmaSlopeCall ==
    /\ driver = "indicators"
    /\ emaIndicator.hasLastMid
    /\ ret'.called /\ ret'.ema.ok
    /\ AllValid(feed')

\* the slope Process computes (its local normSlope, and the MidSlopeNorm the
\* Bollinger indicator returns) is the clamped ratio
C16_ComputedSlopeIsClampedRatio ==
    [][/\ EmaSlopeCall =>
            ret'.ema.normSlope =
                ClampedSlope(MeanOf(emaIndicator'.window), emaIndicator.lastMid,
                             StdDevOfWindow(emaIndicator'.window))
       /\ (driver = "indicators" /\ bollIndicator.hasLastMid /\ ret'.called
           /\ ret'.boll.ok /\ AllValid(feed')) =>
            ret'.boll.bands.MidSlopeNorm =
                ClampedSlope(MeanOf(bollIndicator'.window), bollIndicator.lastMid,
                             StdDevOfWindow(bollIndicator'.window))]_vars

\* C16: after every ready call of the trend indicator that had a previous
\* mean, the normalized slope the indicator exposes to the strategy
\* (EmaIndicator.SlopeNorm) is clamp((mean - previousMean) / denom, -1, 1) with
\* denom = stdDev, else |previousMean|, else |mean|, and 0 when all are zero.
C16_ExposedSlopeIsClampedRatio ==
    [][EmaSlopeCall =>
          /\ emaIndicator'.SlopeNorm =
                ClampedSlope(MeanOf(emaIndicator'.window), emaIndicator.lastMid,
                             StdDevOfWindow(emaIndicator'.window))
          /\ strategy'.emaIndi.SlopeNorm = emaIndicator'.SlopeNorm]_vars

\* on the latest call one of the strategy's indicators reported not-ready, or
\* the signal it exposes (EmaIndicator.SlopeNorm, MeIndicator.Efficiency) is NaN
NotReadyOrNaN ==
    \/ ~ret.emaOk
    \/ ~ret.meOk
    \/ IsNaN(strategy.emaIndi.SlopeNorm)
    \/ IsNaN(strategy.meIndi.Efficiency)

InUnitRange(x) == ~IsNaN(x) /\ 0 <= x /\ x <= FromInt(1)

InSignedUnitRange(x) == ~IsNaN(x) /\ FromInt(-1) <= x /\ x <= FromInt(1)

TrueRangeAt(cs, i) ==
    IF i = 1 THEN FSub(cs[i].High, cs[i].Low)
    ELSE FMax(FSub(cs[i].High, cs[i].Low),
              FMax(FAbs(FSub(cs[i].High, cs[i - 1].Close)),
                   FAbs(FSub(cs[i].Low, cs[i - 1].Close))))

RECURSIVE SumTrueRanges(_, _, _)
\* from-scratch sum of the true ranges of candles from..to
SumTrueRanges(cs, from, to) ==
    IF from > to THEN 0 ELSE FAdd(SumTrueRanges(cs, from, to - 1), TrueRangeAt(cs, to))

RECURSIVE SumVolumes(_, _, _)
SumVolumes(cs, from, to) ==
    IF from > to THEN 0 ELSE FAdd(SumVolumes(cs, from, to - 1), cs[to].Volume)

IsFiniteCandle(c) ==
    /\ ~IsNaN(c.High) /\ ~IsNaN(c.Low) /\ ~IsNaN(c.Close) /\ ~IsNaN(c.Volume)
    /\ ~IsInf(c.High) /\ ~IsInf(c.Low) /\ ~IsInf(c.Close) /\ ~IsInf(c.Volume)

AllFinite(cs) == \A i \in 1..Len(cs) : IsFiniteCandle(cs[i])

ExampleCloses == <<10000, 11000, 9000, 12000, 13000>>

IsExampleFeed ==
    /\ meIndicator.period = 3
    /\ Len(feed) <= Len(ExampleCloses)
    /\ ClosesOf(feed) = SubSeq(ExampleCloses, 1, Len(feed))
    /\ \A i \in 1..Len(feed) : feed[i].Volume = 1000

\* the sums and windows MeIndicator keeps are those of the last `period`
\* candles of the feed, recomputed from scratch
C19_SumsMatchWindow ==
    /\ ret.me.priceChange =
          FSub(feed[Len(feed)].Close, feed[Len(feed) - meIndicator.period].Close)
    /\ ret.me.totalMovement =
          SumTrueRanges(feed, Len(feed) - meIndicator.period + 1, Len(feed))
    /\ meIndicator.trSum = ret.me.totalMovement
    /\ meIndicator.volSum =
          SumVolumes(feed, Len(feed) - meIndicator.period + 1, Len(feed))
    /\ Len(meIndicator.trWindow) = meIndicator.period
    /\ Len(meIndicator.volWindow) = meIndicator.period
    /\ \A i \in 1..meIndicator.period :
          /\ meIndicator.trWindow[i] =
                TrueRangeAt(feed, Len(feed) - meIndicator.period + i)
          /\ meIndicator.volWindow[i] = feed[Len(feed) - meIndicator.period + i].Volume
    /\ meIndicator.closeHistory =
          ClosesOf(SubSeq(feed, Len(feed) - meIndicator.period, Len(feed)))

C19_AlsoAfterCorruptCandles ==
    (driver = "indicators" /\ ret.called /\ ret.me.ok) => C19_SumsMatchWindow

ExactSpread(baseSpread, closePrice, efficiency) ==
    (baseSpread * closePrice * (FP + 2 * efficiency)) \div (FP * FP)

QuotedSpread == ExactSpread(strategy.BaseSpread, candle.Close, strategy.meIndi.Efficiency)

NoSkew == strategy.InventorySkewK = 0 /\ strategy.TrendSkewK = 0

\* C20: before any skew the quote has spread = baseSpread * close * (1 + 2 *
\* efficiency), bid = close - spread/2 and ask = close + spread/2: with both
\* skew coefficients 0 these are the quoted prices, and a skew moves both
\* prices by the same amount, so ask - bid stays the spread.  With baseSpread
\* 0.001, close 100 and efficiency 0: spread 0.1, bid 99.95, ask 100.05.
C20_PreSkewQuote ==
    (driver = "quote" /\ n = 1) =>
        /\ QuotedSpread % 2 = 0
        /\ (quote.BidActive /\ quote.AskActive) =>
              FSub(quote.AskPrice, quote.BidPrice) = QuotedSpread
        /\ (NoSkew /\ quote.BidActive) =>
              quote.BidPrice = candle.Close - QuotedSpread \div 2
        /\ (NoSkew /\ quote.AskActive) =>
              quote.AskPrice = candle.Close + QuotedSpread \div 2
        /\ (/\ NoSkew /\ strategy.BaseSpread = 1 /\ candle.Close = FromInt(100)
            /\ strategy.meIndi.Efficiency = 0
            /\ quote.BidActive /\ quote.AskActive) =>
              /\ QuotedSpread = 100
              /\ quote.BidPrice = 99950
              /\ quote.AskPrice = 100050

\* C20 witness: the example's quote, both sides active
C20_Witness ==
    /\ driver = "quote" /\ n = 1
    /\ NoSkew
    /\ strategy.BaseSpread = 1
    /\ candle.Close = FromInt(100)
    /\ strategy.meIndi.Efficiency = 0
    /\ quote.BidActive /\ quote.AskActive
    /\ quote.BidPrice = 99950 /\ quote.AskPrice = 100050

\* the quote the same strategy builds for the same candle and inventory with
\* the inventory skew switched off
QuoteWithoutInventorySkew ==
    BuildQuote([strategy EXCEPT !.InventorySkewK = 0], candle, invArg)

\* the quote with the trend skew switched off
QuoteWithoutTrendSkew ==
    BuildQuote([strategy EXCEPT !.TrendSkewK = 0], candle, invArg)

InventorySkewApplies == strategy.InventoryLimit > 0 /\ strategy.InventorySkewK # 0

\* inventorySkewK * clamp(inventory / inventoryLimit, -1, 1) * halfSpread
StatedInventoryShift ==
    FMul(FMul(strategy.InventorySkewK,
              clampFloat(FDiv(FromInt(invArg), FromInt(strategy.InventoryLimit)),
                         FromInt(-1), FromInt(1))),
         QuotedSpread \div 2)

LongSkewedBothSides ==
    /\ driver = "quote" /\ n = 1
    /\ InventorySkewApplies /\ strategy.InventorySkewK > 0
    /\ invArg > 0
    /\ quote.BidActive /\ quote.AskActive

\* how far the inventory skew lowered each price
BidDrop == QuoteWithoutInventorySkew.BidPrice - quote.BidPrice

AskDrop == QuoteWithoutInventorySkew.AskPrice - quote.AskPrice

DirectionalEfficiency ==
    IF strategy.meIndi.IsBearish
    THEN FNeg(strategy.meIndi.Efficiency)
    ELSE strategy.meIndi.Efficiency

\* clamp(normSlope + 0.5 * directionalEfficiency - trendBias, -1, 1)
StatedTrendSignal(normSlope) ==
    clampFloat(FSub(FAdd(normSlope, FMul(500, DirectionalEfficiency)),
                    strategy.TrendBias),
               FromInt(-1), FromInt(1))

\* trendSkewK * trendSignal * halfSpread, on the half spread of the candle
StatedTrendShift(normSlope) ==
    FMul(FMul(strategy.TrendSkewK, StatedTrendSignal(normSlope)),
         HalfSpread(strategy, candle.Close, strategy.meIndi.Efficiency))

\* both prices of the quote are those of the reference quote less the shift
ShiftedFrom(reference, shift) ==
    /\ quote.BidActive = reference.BidActive
    /\ quote.AskActive = reference.AskActive
    /\ quote.BidActive => quote.BidPrice = FSub(reference.BidPrice, shift)
    /\ quote.AskActive => quote.AskPrice = FSub(reference.AskPrice, shift)

\* the arithmetic of the trend skew on the slope field the strategy reads
\* (EmaIndicator.SlopeNorm): not applied when trendSkewK = 0, else both prices
\* less trendSkewK * trendSignal * halfSpread, lower for trendSkewK > 0 and a
\* positive trend signal (strictly, once the shift is at least one unit of the
\* fixed-point resolution)
C23_TrendSkewOnHeldSlope ==
    (driver = "quote" /\ n = 1) =>
        /\ strategy.TrendSkewK = 0 => quote = QuoteWithoutTrendSkew
        /\ strategy.TrendSkewK # 0 =>
              ShiftedFrom(QuoteWithoutTrendSkew,
                          StatedTrendShift(strategy.emaIndi.SlopeNorm))
        /\ (strategy.TrendSkewK > 0
            /\ StatedTrendSignal(strategy.emaIndi.SlopeNorm) > 0) =>
              /\ StatedTrendShift(strategy.emaIndi.SlopeNorm) >= 0
              /\ quote.BidActive => quote.BidPrice <= QuoteWithoutTrendSkew.BidPrice
              /\ quote.AskActive => quote.AskPrice <= QuoteWithoutTrendSkew.AskPrice
              /\ StatedTrendShift(strategy.emaIndi.SlopeNorm) > 0 =>
                    /\ quote.BidActive =>
                          quote.BidPrice < QuoteWithoutTrendSkew.BidPrice
                    /\ quote.AskActive =>
                          quote.AskPrice < QuoteWithoutTrendSkew.AskPrice

\* C23: the trend skew subtracts trendSkewK * trendSignal * halfSpread from
\* both prices, where trendSignal = clamp(normSlope + 0.5 *
\* directionalEfficiency - trendBias, -1, 1) and normSlope is the normalized
\* slope the strategy's trend indicator computed for the candle.
C23_TrendSkewBlendsSlope ==
    (driver = "indicators" /\ ret.called /\ ok /\ AllValid(feed)) =>
        ShiftedFrom(QuoteWithoutTrendSkew, StatedTrendShift(ret.emaNormSlope))

\* the half spread of the latest Process call
LatestHalfSpread == HalfSpread(strategy, candle.Close, strategy.meIndi.Efficiency)

\* the two skews of the latest Process call
LatestShift ==
    FAdd(InvShift(strategy, invArg, LatestHalfSpread),
         TrendShift(strategy, LatestHalfSpread))

\* the prices Process computed before it looked at the inventory limit
ComputedBid == FSub(FSub(candle.Close, LatestHalfSpread), LatestShift)

ComputedAsk == FSub(FAdd(candle.Close, LatestHalfSpread), LatestShift)

\* a Process call of the alpha strategy that returned ok = true
ProcessReturnedQuote == driver \in {"process", "quote"} /\ n > 0 /\ ok

\* C24: in every quote returned with ok = true, on finite candles, a side's
\* Active flag is false exactly when that side's price is NaN, and an active
\* side carries the computed price, which is not NaN, with size LotSize.
C24_ActiveIffPriceNotNaN ==
    (ProcessReturnedQuote /\ IsFiniteCandle(candle)) =>
        /\ quote.Valid
        /\ ~quote.BidActive <=> IsNaN(quote.BidPrice)
        /\ ~quote.AskActive <=> IsNaN(quote.AskPrice)
        /\ quote.BidActive =>
              /\ quote.BidPrice = ComputedBid
              /\ ~IsNaN(ComputedBid)
              /\ quote.BidSize = strategy.LotSize
        /\ quote.AskActive =>
              /\ quote.AskPrice = ComputedAsk
              /\ ~IsNaN(ComputedAsk)
              /\ quote.AskSize = strategy.LotSize

\* the same without the restriction to finite candles
C24_AlsoOnCorruptCandles ==
    ProcessReturnedQuote =>
        /\ ~quote.BidActive <=> IsNaN(quote.BidPrice)
        /\ ~quote.AskActive <=> IsNaN(quote.AskPrice)

\* C24 witness: a long position at the limit: the bid is withheld with price
\* NaN, the ask is quoted at the computed price
C24_Witness ==
    /\ ProcessReturnedQuote /\ IsFiniteCandle(candle)
    /\ strategy.InventoryLimit > 0 /\ invArg = strategy.InventoryLimit
    /\ strategy.LotSize > 0
    /\ ~quote.BidActive /\ IsNaN(quote.BidPrice)
    /\ quote.AskActive /\ quote.AskPrice = ComputedAsk
    /\ quote.AskSize = strategy.LotSize

\* C25: with InventoryLimit = 0 every ok = true quote has both sides active
\* whatever the inventory, and no inventory skew is applied: the quote is the
\* one built with InventorySkewK = 0, which is the one built for inventory 0.
C25_NoLimitQuotesBothSides ==
    (ProcessReturnedQuote /\ strategy.InventoryLimit = 0) =>
        /\ quote.BidActive /\ quote.AskActive
        /\ InvShift(strategy, invArg, LatestHalfSpread) = 0
        /\ quote = QuoteWithoutInventorySkew
        /\ quote = BuildQuote(strategy, candle, 0)

\* C25 witness: no limit, a non-zero skew coefficient, the largest inventory
\* an int holds, and both sides quoted at the unskewed prices
C25_Witness ==
    /\ ProcessReturnedQuote /\ IsFiniteCandle(candle)
    /\ strategy.InventoryLimit = 0 /\ strategy.InventorySkewK # 0
    /\ strategy.LotSize > 0
    /\ invArg = IntMax
    /\ quote.BidActive /\ quote.AskActive
    /\ quote.BidPrice = BuildQuote(strategy, candle, 0).BidPrice

\* the conditions under which FinalizeCandle is to install an order of a side
BuyDue(q) == q.Valid /\ q.BidActive /\ q.BidSize > 0 /\ ~IsNaN(q.BidPrice)

SellDue(q) == q.Valid /\ q.AskActive /\ q.AskSize > 0 /\ ~IsNaN(q.AskPrice)

\* the resting orders of one side
RestingOf(engine, side) ==
    LET OfSide(o) == o.Side = side
    IN SelectSeq(engine.pendingOrders, OfSide)

\* C26: FinalizeCandle installs a resting buy exactly when the quote is Valid,
\* its bid is active, its bid size is positive and its bid price is not NaN,
\* and a resting sell under the same conditions on the ask, each with the
\* quote's price, size and time; nothing else rests, and with Valid = false
\* the resting set is left empty.
C26_InstallsOrdersOfValidQuote ==
    [][IsFinalizeStep =>
          /\ RestingOf(pe', "buy") =
                IF BuyDue(quote')
                THEN << [Side |-> "buy", Price |-> quote'.BidPrice,
                         Size |-> quote'.BidSize, PlacedAt |-> quote'.Time] >>
                ELSE <<>>
          /\ RestingOf(pe', "sell") =
                IF SellDue(quote')
                THEN << [Side |-> "sell", Price |-> quote'.AskPrice,
                         Size |-> quote'.AskSize, PlacedAt |-> quote'.Time] >>
                ELSE <<>>
          /\ Len(pe'.pendingOrders) =
                Len(RestingOf(pe', "buy")) + Len(RestingOf(pe', "sell"))
          /\ ~quote'.Valid => pe'.pendingOrders = <<>>]_vars

\* C26 witness: FinalizeCandle was given a Valid quote whose active bid has
\* size 0 and installed the sell alone
C26_Witness ==
    /\ driver = "engine" /\ pc = "head" /\ n > 0
    /\ quote.Valid /\ quote.BidActive /\ quote.BidSize = 0
    /\ pe.pendingOrders = << [Side |-> "sell", Price |-> quote.AskPrice,
                              Size |-> quote.AskSize, PlacedAt |-> quote.Time] >>

\* the sign of an inventory as the float the row carries
SignOf(inventory) ==
    IF inventory > 0 THEN FromInt(1) ELSE IF inventory < 0 THEN FromInt(-1) ELSE 0

\* the fills of one side among those a call of ApplyFills returned
FillsOf(returned, side) ==
    LET OfSide(f) == f.Side = side
    IN SelectSeq(returned, OfSide)

LastOf(seq) == seq[Len(seq)]

\* what the row of a cycle is to record, given the engine after ApplyFills,
\* the candle and the fills ApplyFills returned
RowRecordsCycle(row, engine, c, returned) ==
    /\ row.Time = c.Time /\ row.Close = c.Close
    /\ row.Inventory = engine.inventory /\ row.Cash = engine.cash
    /\ row.CumulativePnL = FAdd(engine.cash, FMul(FromInt(engine.inventory), c.Close))
    /\ row.Signal = SignOf(engine.inventory)
    /\ row.HasBuyFill <=> FillsOf(returned, "buy") # <<>>
    /\ row.HasSellFill <=> FillsOf(returned, "sell") # <<>>
    /\ row.HasBuyFill => row.BuyFillPrice = LastOf(FillsOf(returned, "buy")).Price
    /\ row.HasSellFill => row.SellFillPrice = LastOf(FillsOf(returned, "sell")).Price

\* C27: every FinalizeCandle appends one ResultRow whose CumulativePnL is
\* cash + inventory * candle.close taken after the cycle's fills, whose Signal
\* is the sign of the inventory, and whose HasBuyFill / HasSellFill are set,
\* with the fill price, exactly when this cycle's ApplyFills returned a fill of
\* that side; the same PnL is appended to the P&L history.
C27_RowRecordsCycle ==
    [][IsFinalizeStep =>
          /\ Len(pe'.results) = Len(pe.results) + 1
          /\ RowRecordsCycle(LastOf(pe'.results), pe, candle, fills)
          /\ pe'.pnlHistory = Append(pe.pnlHistory, LastOf(pe'.results).CumulativePnL)]_vars

\* every row written so far is consistent with itself and with the history
C27_EveryRowConsistent ==
    /\ Len(pe.pnlHistory) = Len(pe.results)
    /\ \A i \in 1..Len(pe.results) :
          /\ pe.results[i].CumulativePnL = pe.pnlHistory[i]
          /\ pe.results[i].CumulativePnL =
                FAdd(pe.results[i].Cash,
                     FMul(FromInt(pe.results[i].Inventory), pe.results[i].Close))
          /\ pe.results[i].Signal = SignOf(pe.results[i].Inventory)

\* C27 witness: the cycle's ApplyFills returned a buy alone; the row flags the
\* buy at its price, is long, and marks the position at the close
C27_Witness ==
    /\ driver = "engine" /\ pc = "head" /\ pe.results # <<>>
    /\ FillsOf(fills, "buy") # <<>> /\ FillsOf(fills, "sell") = <<>>
    /\ LastOf(pe.results).HasBuyFill /\ ~LastOf(pe.results).HasSellFill
    /\ LastOf(pe.results).BuyFillPrice = EngineBid
    /\ LastOf(pe.results).Inventory = 1
    /\ LastOf(pe.results).Signal = FromInt(1)
    /\ LastOf(pe.results).CumulativePnL = FSub(candle.Close, EngineBid)
    /\ LastOf(pe.pnlHistory) = FSub(candle.Close, EngineBid)

\* seq is an initial part of longer
IsPrefix(seq, longer) ==
    /\ Len(seq) <= Len(longer)
    /\ SubSeq(longer, 1, Len(seq)) = seq

\* trade times never decrease along the log
TimesNonDecreasing(log) ==
    \A i \in 1..Len(log) : \A j \in i..Len(log) : log[i].Time <= log[j].Time

\* C30: the trade log is append-only: every step leaves the recorded trades
\* in place and unchanged and can only add trades after them, and the log is
\* in the order of the fills: trade times never decrease along it.
C30_TradeLogAppendOnly ==
    [][/\ IsPrefix(pe.trades, pe'.trades)
       /\ TimesNonDecreasing(pe'.trades)]_vars

\* a call of ApplyFills appends to the log exactly the fills it returns, in
\* the order it returns them, stamped with the time of its candle
C30_LogEndsWithReturnedFills ==
    (pc \in {"process", "finalize"} /\ driver \in {"ema", "bollinger", "engine"}) =>
        /\ Len(fills) <= Len(pe.trades)
        /\ SubSeq(pe.trades, Len(pe.trades) - Len(fills) + 1, Len(pe.trades)) = fills
        /\ \A i \in 1..Len(fills) : fills[i].Time = candle.Time

\* C30 witness: the log holds the two fills of an earlier candle, buy before
\* sell as the orders rested, followed by a fill of a later candle
C30_Witness ==
    /\ driver = "engine"
    /\ Len(pe.trades) >= 3
    /\ pe.trades[1].Side = "buy" /\ pe.trades[2].Side = "sell"
    /\ pe.trades[1].Time = pe.trades[2].Time
    /\ pe.trades[2].Time < pe.trades[3].Time

\* C29: a MeIndicator constructed with period <= 0 reports ready = false on
\* every call, whatever the candles, and its windows, sums and signals stay as
\* the constructor left them; the indicator of the bollinger program does the
\* same.
C29_DisabledIndicatorNeverReady ==
    (driver = "period" /\ meIndicator.period <= 0) =>
        /\ meIndicator = NewMeIndicator(meIndicator.period)
        /\ meIndicator.closeHistory = <<>>
        /\ meIndicator.trWindow = <<>> /\ meIndicator.volWindow = <<>>
        /\ meIndicator.trSum = 0 /\ meIndicator.volSum = 0
        /\ ret.called =>
              /\ ~ret.meOk
              /\ ~ret.legacyOk
              /\ ret.legacyIndi = meIndicator

\* C29 witness: a period-0 indicator has been fed MaxFeed candles, a corrupt
\* one among them, and is not ready and still as constructed
C29_Witness ==
    /\ driver = "period" /\ meIndicator.period = 0
    /\ Len(feed) = MaxFeed /\ ~AllValid(feed)
    /\ ret.called /\ ~ret.meOk
    /\ meIndicator = NewMeIndicator(0)

\* C28 as stated: Apply returns without waiting on any exchange round trip:
\* the candle callback is never parked inside Apply on a request the exchange
\* has not answered.
C28_ApplyNeverWaitsOnExchange ==
    driver = "live" => ~(pc = "cancel" /\ trader.cancel = "sent")

\* the part of C28 about the submissions: the callback never waits for a
\* placeOrder goroutine; whenever it is parked, it is on the cancel request
C28_WaitsOnlyForTheCancel ==
    driver = "live" =>
        /\ pc \in {"head", "cancel", "panic"}
        /\ pc = "cancel" <=> trader.cancel \in {"sent", "answered"}
        /\ pc = "head" => trader.cancel = "none"

\* the change of inventory made by the first k fills a call of ApplyFills
\* returned
RECURSIVE NetOfFills(_, _)
NetOfFills(returned, k) ==
    IF k = 0 THEN 0
    ELSE NetOfFills(returned, k - 1)
         + (IF returned[k].Side = "buy" THEN returned[k].Size ELSE -returned[k].Size)

\* the inventory after the first k fills of the latest ApplyFills call
InventoryAfterFill(k) ==
    (pe.inventory - NetOfFills(fills, Len(fills))) + NetOfFills(fills, k)

\* C31: in the backtest loop with InventoryLimit = L > 0 and LotSize > 0,
\* starting flat, |inventory| <= L in every state of the paper engine, also
\* after each single fill of a cycle in which the resting buy and the resting
\* sell both fill against the same candle.
C31_InventoryWithinLimit ==
    (driver \in {"ema", "bollinger"} /\ strategy.InventoryLimit > 0
     /\ strategy.LotSize > 0) =>
        /\ AbsI(pe.inventory) <= strategy.InventoryLimit
        /\ pc = "process" =>
              \A k \in 0..Len(fills) :
                  AbsI(InventoryAfterFill(k)) <= strategy.InventoryLimit

\* C31 witness: long one lot under a limit of two, the buy and the sell both
\* filled against the same candle, the buy taking the inventory to the limit
\* in between
C31_Witness ==
    /\ driver = "ema" /\ strategy.InventoryLimit = 2 /\ strategy.LotSize = 1
    /\ pc = "process" /\ Len(fills) = 2
    /\ fills[1].Side = "buy" /\ fills[2].Side = "sell"
    /\ InventoryAfterFill(0) = 1 /\ InventoryAfterFill(1) = 2
    /\ pe.inventory = 1

\* the step behind C31 for every lot size: from an inventory within the limit
\* a side is quoted only if its fill leaves the inventory within the limit
C31_QuotedSidesKeepLimit ==
    (driver = "process" /\ n > 0 /\ ok /\ strategy.InventoryLimit > 0
     /\ AbsI(invArg) <= strategy.InventoryLimit) =>
        /\ quote.BidActive => AbsI(invArg + quote.BidSize) <= strategy.InventoryLimit
        /\ quote.AskActive => AbsI(invArg - quote.AskSize) <= strategy.InventoryLimit
        /\ (quote.BidActive /\ quote.AskActive) =>
              AbsI(invArg + quote.BidSize - quote.AskSize) <= strategy.InventoryLimit

C32_OnProcess ==
    (driver \in {"process", "indicators"} /\ n > 0 /\ ok /\ IsFiniteCandle(candle)) =>
        /\ AbsI(FSub(ComputedAsk, ComputedBid)
                - Spread(strategy, candle.Close, strategy.meIndi.Efficiency)) <= 1
        /\ candle.Close > 0 => ComputedBid < ComputedAsk

C32_OnLegacyQuotes ==
    (driver = "bollinger" /\ pc = "finalize" /\ quote.Valid
     /\ quote.BidActive /\ quote.AskActive
     /\ ~IsNaN(quote.BidPrice) /\ ~IsNaN(quote.AskPrice)) =>
        /\ AbsI((quote.AskPrice - quote.BidPrice)
                - Spread(strategy, candle.Close, candle.NormalizedEfficiency)) <= 1
        /\ candle.Close > 0 => quote.BidPrice < quote.AskPrice


\* C33: in live mode the exchange never holds orders of two different cycles
\* at once: every order resting at the exchange was placed for the same quote
C33_OneCycleAtExchange ==
    driver = "live" =>
        \A o1 \in trader.resting, o2 \in trader.resting : o1.cycle = o2.cycle


\* C38: a placeOrder call sends a bounded number of requests: the first and,
\* after a rejection with code -5022, -5028 or -1008, one more with
\* priceMatch=QUEUE; the chain of retries ends whatever the exchange answers,
\* also when it rejects the retried order with the same code
C38_AtMostTwoSubmissions ==
    driver = "place" => n <= 2

\* the part of C38 that holds: every request after the first asks for
\* priceMatch=QUEUE (px = 0), and the call sends nothing after a response
\* other than one of the three codes
C38_RetriesAskForQueue ==
    driver = "place" =>
        /\ n >= 2 => \A o \in trader.placing : o.px = 0
        /\ pc \in {"returned", "panic"} => trader.placing = {}


\* the position the exchange books for the account, in lots
BookedInventory == WrapInt(trader.position \div trader.tradeSz)

\* a step in which the candle callback hands a closed bar to strategy.Process
ClosedBarStep == driver = "live" /\ feed' # feed

\* C34: in live mode the inventory passed to the strategy is the copy of the
\* position that the user-stream goroutine keeps (pz, read without
\* synchronisation), and the sides of the quote are gated on that copy; so a
\* fill the stream has not delivered yet is not reflected, and a side can be
\* active although the booked position plus or minus lotSize exceeds
\* inventoryLimit (the state C34_Witness)
C34_InventoryFromPositionFeed ==
    [][ClosedBarStep =>
          /\ invArg' = WrapInt(trader.pz \div trader.tradeSz)
          /\ ok' => /\ quote'.BidActive <=>
                         absInt(WrapInt(invArg' + strategy.LotSize))
                             <= strategy.InventoryLimit
                    /\ quote'.AskActive <=>
                         absInt(WrapInt(invArg' - strategy.LotSize))
                             <= strategy.InventoryLimit]_vars

\* the callback has quoted a bid on the copy 0 while the exchange books one
\* lot, whose ACCOUNT_UPDATE event wsUser has not read yet: with limit 1 the
\* bid would take the position to 2
C34_Witness ==
    /\ driver = "live" /\ pc = "cancel" /\ ok
    /\ strategy.InventoryLimit = 1 /\ strategy.LotSize = 1
    /\ quote.BidActive
    /\ invArg = 0 /\ trader.pz = 0
    /\ BookedInventory = 1
    /\ trader.stream = <<LiveTradeSz>>
    /\ absInt(BookedInventory + strategy.LotSize) > strategy.InventoryLimit

\* what C34 says need not hold: the callback reads the booked position
C34_ReadsTheBookedPosition ==
    [][ClosedBarStep => invArg' = BookedInventory]_vars

\* what C34 says need not hold: an active side keeps the booked position
\* within the limit
C34_ActiveSideKeepsBookedLimit ==
    [][(ClosedBarStep /\ ok') =>
          /\ quote'.BidActive =>
               absInt(BookedInventory + strategy.LotSize) <= strategy.InventoryLimit
          /\ quote'.AskActive =>
               absInt(BookedInventory - strategy.LotSize) <= strategy.InventoryLimit]_vars


RECURSIVE StrictlyIncreasingTimes(_)
StrictlyIncreasingTimes(cs) ==
    \/ Len(cs) <= 1
    \/ /\ cs[Len(cs) - 1].Time < cs[Len(cs)].Time
       /\ StrictlyIncreasingTimes(SubSeq(cs, 1, Len(cs) - 1))

\* a step in which WsKline delivers an update of a bar in progress
InProgressStep ==
    driver = "live" /\ ~ret'.x /\ (candle' # candle \/ ret' # ret)

\* C35: in live mode the strategy is invoked only for messages whose
\* closed-bar marker is set: the bars handed to strategy.Process have
\* strictly increasing times (each bar at most once), and an update of a bar
\* in progress changes neither the strategy with its indicators nor the
\* trader, and starts no Apply
C35_OnlyClosedBarsReachStrategy ==
    /\ [](driver = "live" => StrictlyIncreasingTimes(feed))
    /\ [][ClosedBarStep => ret'.x /\ feed' = Append(feed, candle')]_vars
    /\ [][(driver = "live" /\ strategy' # strategy) => ClosedBarStep]_vars
    /\ [][(driver = "live" /\ pc = "head" /\ pc' = "cancel") => ClosedBarStep]_vars
    /\ [][InProgressStep =>
             /\ strategy' = strategy
             /\ feed' = feed
             /\ trader' = trader
             /\ pc' = pc
             /\ quote' = quote
             /\ ok' = ok]_vars

\* an update of the bar in progress has arrived after a closed bar that
\* produced a quote: the strategy has seen the one closed bar only
C35_Witness ==
    /\ driver = "live"
    /\ ~ret.x
    /\ Len(feed) = 2
    /\ candle.Time = 3
    /\ candle # feed[2]
    /\ ok
    /\ pc = "head"


\* the bars among the first k candles of a sequence
BarsOf(cs) == { cs[i] : i \in 1..Len(cs) }

\* C36: FetchKlines returns exactly limit candles, in strictly increasing
\* time order, all of them bars the exchange returned, for every limit and
\* every length of the response; it yields no zero-valued candle and indexes
\* no element outside the slice
C36_ExactlyLimitExchangeBars ==
    (driver = "fetch" /\ ret.called) =>
        /\ ~ret.panic
        /\ Len(feed) = ret.limit
        /\ StrictlyIncreasingTimes(feed)
        /\ BarsOf(feed) \subseteq BarsOf(ret.rows)
        /\ ZeroCandle \notin BarsOf(feed)

\* what holds of FetchKlines: when the response has exactly limit rows the
\* result is these rows, oldest first; a shorter response leaves
\* limit - Len(rows) zero candles (at the end for bn, at the start for x10),
\* a longer one and a negative limit panic
C36_ExactOnlyOnFullResponse ==
    (driver = "fetch" /\ ret.called) =>
        /\ ret.panic <=> (ret.limit < 0 \/ Len(ret.rows) > ret.limit)
        /\ ~ret.panic =>
             /\ Len(feed) = ret.limit
             /\ BarsOf(feed) \ {ZeroCandle} = BarsOf(ret.rows)
             /\ Len(ret.rows) = ret.limit => feed = ret.rows
             /\ \A k \in 1..Len(feed) :
                  feed[k] = ZeroCandle <=>
                     IF ret.adapter = "bn" THEN k > Len(ret.rows)
                     ELSE k <= ret.limit - Len(ret.rows)

\* also a response of exactly the requested min(limit, 1500) rows leaves zero
\* candles when limit exceeds the cap
C36_NoPlaceholderUpToTheCap ==
    (driver = "fetch" /\ ret.called /\ Len(ret.rows) = RequestedLimit(ret.limit)
        /\ ret.limit >= 0) =>
        (ZeroCandle \in BarsOf(feed) <=> ret.limit > KlineCap)


RECURSIVE SumOfWindow(_)
SumOfWindow(w) ==
    IF Len(w) = 0 THEN 0 ELSE FAdd(SumOfWindow(SubSeq(w, 1, Len(w) - 1)), w[Len(w)])

\* the capacity of a window of an indicator built with this period or span
Capacity(period) == IF period > 0 THEN period ELSE 0

MeAggregatesMatch(indi) ==
    /\ indi.trSum = SumOfWindow(indi.trWindow)
    /\ indi.volSum = SumOfWindow(indi.volWindow)

MeWindowsWithinCapacity(indi) ==
    /\ Len(indi.trWindow) <= Capacity(indi.period)
    /\ Len(indi.volWindow) <= Capacity(indi.period)
    /\ Len(indi.closeHistory) <= Capacity(indi.period) + 1

EmaAggregatesMatch(indi) ==
    /\ indi.sum = SumOfWindow(indi.window)
    /\ indi.sumSquares = SumOfSquares(indi.window)

EmaWindowWithinCapacity(indi) == Len(indi.window) <= indi.span

C37_AlsoAfterCorruptCandles ==
    driver = "indicators" =>
        /\ MeAggregatesMatch(meIndicator)
        /\ EmaAggregatesMatch(emaIndicator)

\* the windows of a MeIndicator built with a period <= 0 stay empty
C37_DisabledWindowsStayEmpty ==
    driver = "period" =>
        /\ MeWindowsWithinCapacity(meIndicator)
        /\ AllFinite(feed) => MeAggregatesMatch(meIndicator)
        /\ meIndicator.period <= 0 =>
             /\ meIndicator.trWindow = <<>> /\ meIndicator.volWindow = <<>>
             /\ meIndicator.closeHistory = <<>>
             /\ meIndicator.trSum = 0 /\ meIndicator.volSum = 0

====
